---------------------------- MODULE Spec2Model ----------------------------
(***************************************************************************)
(* A model of the FlashFloppy floppy image track engine: the IMG sector    *)
(* image engine (src/src/image/img.c), the HFE engine                      *)
(* (src/src/image/hfe.c) and the arena allocator (src/src/arena.c).        *)
(*                                                                         *)
(* Every C object is a record or a function; every handler is one action.  *)
(* Integers keep the width the C code gives them (U8, U16); a uint32_t is  *)
(* held as its two's-complement int32_t reading, see u32_div.               *)
(***************************************************************************)
EXTENDS Integers, Sequences, FiniteSets, TLC

VARIABLES
    im,     \* struct image: geometry and position state of the mounted image
    rd,     \* im->bufs.read_data  : [prod, cons, buf]
    bc,     \* im->bufs.read_bc    : [prod, cons, buf] (ring of words or bytes)
    wr,     \* im->bufs.write_bc   : [prod, cons, buf] (ring filled by the pump)
            \* and, for HFE, im->bufs.write_data : wdata
    wq,     \* write descriptors   : [wr_cons, wr_bc, start, bc_end]
    file,   \* the image file      : [base, log] (initial bytes + writes)
    heap,   \* the arena          : heap_p, heap_top and the regions handed out
    h       \* history of the last handler call (what it emitted, decoded...)

vars == <<im, rd, bc, wr, wq, file, heap, h>>

(***************************************************************************)
(* Fixed-width integers and bit operations.                                *)
(***************************************************************************)
U8(x)  == x % 256
U16(x) == x % 65536
I16(x) == IF U16(x) >= 32768 THEN U16(x) - 65536 ELSE U16(x)

\* uint32_t arithmetic.  A uint32_t v is held as v when v < 2^31 and as
\* v - 2^32 otherwise, so sums and differences are the plain ones.
\* u32_div(x, k) is the C quotient v / k for 0 < k < 2^31.
INT32_MAX == 2147483647
u32_div(x, k) ==
    IF x >= 0 THEN x \div k
    ELSE 2 * (INT32_MAX \div k) + ((2 * (INT32_MAX % k) + 2 + x) \div k)

\* F applied to the value of e: e is evaluated once, however often F uses it.
Bind(e, F(_)) == CHOOSE y \in {F(x) : x \in {e}} : TRUE

Min(a, b) == IF a < b THEN a ELSE b
Max(a, b) == IF a > b THEN a ELSE b

Pow2(n) == 2 ^ n
Bit(x, i) == (x \div Pow2(i)) % 2

Xor4 == [a \in 0..15 |-> [b \in 0..15 |->
           ((Bit(a,0) + Bit(b,0)) % 2)
         + ((Bit(a,1) + Bit(b,1)) % 2) * 2
         + ((Bit(a,2) + Bit(b,2)) % 2) * 4
         + ((Bit(a,3) + Bit(b,3)) % 2) * 8]]

Xor8tab == [a \in 0..255 |-> [b \in 0..255 |->
              Xor4[a % 16][b % 16] + 16 * Xor4[a \div 16][b \div 16]]]

Xor8(a, b)  == Xor8tab[a][b]
Xor16(a, b) == Xor8(a % 256, b % 256) + 256 * Xor8(a \div 256, b \div 256)

\* htobe16 / be16toh on the little-endian Cortex-M: a byte swap.
htobe16(x) == (x % 256) * 256 + (x \div 256)
be16toh(x) == (x % 256) * 256 + (x \div 256)

\* _rbit32(x) >> 24 for a byte x: the byte with its bit order reversed.
rbit8(x) == Bit(x,0)*128 + Bit(x,1)*64 + Bit(x,2)*32 + Bit(x,3)*16
          + Bit(x,4)*8 + Bit(x,5)*4 + Bit(x,6)*2 + Bit(x,7)

(***************************************************************************)
(* CRC16-CCITT: polynomial 0x1021, no reflection, no final XOR.            *)
(***************************************************************************)
RECURSIVE crc_shift(_, _)
crc_shift(c, n) ==
    IF n = 0 THEN c
    ELSE crc_shift(IF c >= 32768 THEN Xor16(U16(c * 2), \h1021)
                   ELSE U16(c * 2), n - 1)

crc16tab == [i \in 0..255 |-> crc_shift(i * 256, 8)]

\* crc = (crc << 8) ^ crc16tab[(crc >> 8) ^ b]
crc16_byte(crc, b) ==
    LET t == crc16tab[Xor8tab[crc \div 256][b]]
    IN  Xor8tab[crc % 256][t \div 256] * 256 + (t % 256)

\* crc16_ccitt(buf, len, crc) over the bytes s[lo..hi] (1-based, inclusive).
RECURSIVE crc16_range(_, _, _, _)
crc16_range(s, lo, hi, crc) ==
    IF lo > hi THEN crc
    ELSE IF hi - lo < 8
         THEN LET c == crc16_byte(crc, s[lo])
              IN  IF c >= 0 THEN crc16_range(s, lo + 1, hi, c) ELSE c
         ELSE LET mid == (lo + hi) \div 2
                  c   == crc16_range(s, lo, mid, crc)
              IN  IF c >= 0 THEN crc16_range(s, mid + 1, hi, c) ELSE c

crc16_ccitt(s, crc) == crc16_range(s, 1, Len(s), crc)

(***************************************************************************)
(* MFM tables.  mfmtab[b] spreads the data bits of b over the even bit     *)
(* positions and sets a clock bit between two 0 data bits (the clock       *)
(* before bit 7 assumes a preceding 0).  mfmtobin() takes a word as it     *)
(* lies in the ring (big endian) and returns its data bits.                *)
(***************************************************************************)
mfm_clk(b, i) == IF i = 7 THEN 1 - Bit(b, 7)
                 ELSE (1 - Bit(b, i + 1)) * (1 - Bit(b, i))

mfmtab == [b \in 0..255 |->
     (mfm_clk(b,7) * 2 + Bit(b,7)) * 16384
   + (mfm_clk(b,6) * 2 + Bit(b,6)) * 4096
   + (mfm_clk(b,5) * 2 + Bit(b,5)) * 1024
   + (mfm_clk(b,4) * 2 + Bit(b,4)) * 256
   + (mfm_clk(b,3) * 2 + Bit(b,3)) * 64
   + (mfm_clk(b,2) * 2 + Bit(b,2)) * 16
   + (mfm_clk(b,1) * 2 + Bit(b,1)) * 4
   + (mfm_clk(b,0) * 2 + Bit(b,0))]

databits(w) == Bit(w,14)*128 + Bit(w,12)*64 + Bit(w,10)*32 + Bit(w,8)*16
             + Bit(w,6)*8 + Bit(w,4)*4 + Bit(w,2)*2 + Bit(w,0)

mfmtobin(raw) == databits(be16toh(U16(raw)))

(***************************************************************************)
(* Geometry: the IMG type table and what the openers leave in struct image.*)
(***************************************************************************)
LAYOUT_interleaved              == 0
LAYOUT_interleaved_swap_sides   == 1
LAYOUT_sequential_reverse_side1 == 2

SYNC_none == "none"
SYNC_mfm  == "mfm"
SYNC_fm   == "fm"

GAP_1    == 50
GAP_2    == 22
GAP_4A   == 80
GAP_SYNC == 12

FM_GAP_2    == 11
FM_GAP_4A   == 16
FM_GAP_SYNC == 6
FM_SYNC_CLK == 199

\* ARRAY_SIZE(im->img.sec_map)
SEC_MAP_SIZE == 64

\* im->cur_track before the first seek: no track.
NO_TRACK == 65535

\* Clock contract: the system clock (MHz) and the slow tick clock (MHz).
SYSCLK_MHZ == 72
STK_MHZ    == 9

stk_ms(ms)    == ms * 1000 * STK_MHZ
sysclk_ms(ms) == ms * 1000 * SYSCLK_MHZ
sysclk_stk(s) == (s * SYSCLK_MHZ) \div STK_MHZ

sec_sz(m) == 128 * Pow2(m.sec_no)

\* One row of a type table (struct img_type), written as in the source.
Type(nr_secs, sides, iam, gap3, il, no, base, itn, skew, cyls, rpm) ==
    [nr_secs |-> nr_secs, nr_sides |-> sides - 1, has_iam |-> iam,
     gap3 |-> gap3, interleave |-> il, no |-> no, base |-> base,
     inter_track_numbering |-> itn, skew |-> skew,
     cyls |-> cyls \div 40, rpm |-> rpm \div 60 - 5]

img_type == <<
    Type( 8, 1, 1, 84, 1, 2, 1, 0, 0, 40, 300),
    Type( 9, 1, 1, 84, 1, 2, 1, 0, 0, 40, 300),
    Type(10, 1, 1, 30, 1, 2, 1, 0, 0, 40, 300),
    Type( 8, 2, 1, 84, 1, 2, 1, 0, 0, 40, 300),
    Type( 9, 2, 1, 84, 1, 2, 1, 0, 0, 40, 300),
    Type(10, 2, 1, 30, 1, 2, 1, 0, 0, 40, 300),
    Type(15, 2, 1, 84, 1, 2, 1, 0, 0, 80, 360),
    Type( 9, 1, 1, 84, 1, 2, 1, 0, 0, 80, 300),
    Type(10, 1, 1, 30, 1, 2, 1, 0, 0, 80, 300),
    Type(11, 1, 1,  3, 2, 2, 1, 0, 0, 80, 300),
    Type( 8, 2, 1, 84, 1, 2, 1, 0, 0, 80, 300),
    Type( 9, 2, 1, 84, 1, 2, 1, 0, 0, 80, 300),
    Type(10, 2, 1, 30, 1, 2, 1, 0, 0, 80, 300),
    Type(11, 2, 1,  3, 2, 2, 1, 0, 0, 80, 300),
    Type(18, 2, 1, 84, 1, 2, 1, 0, 0, 80, 300),
    Type(19, 2, 1, 70, 1, 2, 1, 0, 0, 80, 300),
    Type(21, 2, 1, 18, 2, 2, 1, 0, 0, 80, 300),
    Type(20, 2, 1, 40, 1, 2, 1, 0, 0, 80, 300),
    Type(36, 2, 1, 84, 1, 2, 1, 0, 0, 80, 300) >>

\* struct image after image_open's memset and before the format opener.
\* index_pulses[MAX_CUSTOM_PULSES]
MAX_CUSTOM_PULSES == 34

ZeroImage ==
    [nr_cyls |-> 0, nr_sides |-> 0, cur_track |-> NO_TRACK, sync |-> SYNC_none,
     tracklen_bc |-> 0, ticks_per_cell |-> 0, stk_per_rev |-> 0,
     write_bc_ticks |-> 0, cur_bc |-> 0, cur_ticks |-> 0,
     ticks_since_flux |-> 0,
     \* struct img_image
     sec_no |-> 0, nr_sectors |-> 0, interleave |-> 0, skew |-> 0,
     skew_cyls_only |-> FALSE, layout |-> LAYOUT_interleaved,
     sec_base |-> <<0, 0>>, sec_map |-> <<>>, has_iam |-> FALSE,
     gap_2 |-> 0, gap_3 |-> 0, gap_4 |-> 0, gap_4a |-> 0,
     post_crc_syncs |-> 0, idx_sz |-> 0, idam_sz |-> 0, dam_sz_pre |-> 0,
     dam_sz_post |-> 0, data_rate |-> 0, rpm |-> 0, base_off |-> 0,
     trk_off |-> 0, trk_sec |-> 0, rd_sec_pos |-> 0, decode_pos |-> 0,
     decode_data_pos |-> 0, crc |-> 0, write_sector |-> 0,
     \* the handler chosen at mount and struct hfe_image
     handler |-> "img",
     hfe |-> [is_v3 |-> FALSE, double_step |-> FALSE, tlut_base |-> 0,
              trk_off |-> 0, trk_len |-> 0, trk_pos |-> 0, batch_secs |-> 0,
              next_index_pulses_pos |-> 0,
              write |-> [start |-> 0, wrapped |-> FALSE],
              write_batch |-> [off |-> 0, len |-> 0, dirty |-> FALSE]],
     tracklen_ticks |-> 0,
     index_pulses |-> [i \in 0..(MAX_CUSTOM_PULSES - 1) |-> 0],
     index_pulses_len |-> 0, index_pulses_ver |-> 0]

enc_sec_sz(m) == m.idam_sz + m.dam_sz_pre + sec_sz(m) + m.dam_sz_post

\* sec_base(im): the first sector ID of the current head.
sec_base(m) ==
    LET k == IF m.nr_sides = 2 THEN m.cur_track % 2 ELSE 0
    IN  m.sec_base[k + 1]

idam_gap_sync(m) == Min(U8(m.gap_3), GAP_SYNC)

open_rejects(m) ==
    \/ m.nr_sides < 1 \/ m.nr_sides > 2
    \/ m.nr_cyls < 1 \/ m.nr_cyls > 254
    \/ m.nr_sectors < 1 \/ m.nr_sectors > SEC_MAP_SIZE

GAP_3 == <<32, 54, 84, 116, 255, 255, 255, 255>>

\* (x + 31) & ~31
round_up_none(x) == x
round_up_32(x) == (x + 31) - ((x + 31) % 32)

\* The data-rate class: the smallest i in 0..2 whose standard track holds
\* tracklen bitcells, else 3.
RECURSIVE data_rate_class(_, _, _)
data_rate_class_dd(tracklen, rpm, i) == 1
data_rate_class(tracklen, rpm, i) ==
    IF i >= 3 THEN 3
    ELSE IF tracklen < (((50000 * 300) \div rpm) * Pow2(i)) + 5000 THEN i
    ELSE data_rate_class(tracklen, rpm, i + 1)

\* Extend the track length ("long track").
long_track_unextended(tracklen, std) == std
long_track(tracklen, std) == tracklen + 100

mfm_open(m0) ==
    IF open_rejects(m0) THEN [ok |-> FALSE, im |-> m0]
    ELSE
    LET rpm    == IF m0.rpm # 0 THEN m0.rpm ELSE 300
        gap_2  == IF m0.gap_2 # 0 THEN m0.gap_2 ELSE GAP_2
        gap_3  == IF m0.gap_3 # 0 THEN m0.gap_3 ELSE GAP_3[m0.sec_no + 1]
        gap_4a == IF m0.gap_4a # 0 THEN m0.gap_4a ELSE GAP_4A
        m1 == [m0 EXCEPT !.rpm = rpm, !.gap_2 = gap_2, !.gap_3 = gap_3,
                         !.gap_4a = gap_4a]
        stk_per_rev == (stk_ms(200) * 300) \div rpm
        idx0 == gap_4a + (IF m0.has_iam THEN GAP_SYNC + 4 + GAP_1 ELSE 0)
        m2 == [m1 EXCEPT
                 !.idam_sz = idam_gap_sync(m1) + 8 + 2 + gap_2
                             + m0.post_crc_syncs,
                 !.dam_sz_pre = GAP_SYNC + 4,
                 !.dam_sz_post = 2 + gap_3 + m0.post_crc_syncs]
        tracklen0 == ((enc_sec_sz(m2) * m0.nr_sectors + idx0) * 16)
        i == data_rate_class(tracklen0, rpm, 0)
        data_rate == 250 * Pow2(i)
        std  == (data_rate * 200 * 300) \div rpm
        over == std < tracklen0
        trim == over /\ (tracklen0 - gap_4a * 16) <= std
        tracklen == IF trim THEN (tracklen0 - gap_4a * 16) ELSE tracklen0
        bc0 == IF over /\ ~trim THEN long_track(tracklen0, std) ELSE std
        tracklen_bc == round_up_32(bc0)
    IN  [ok |-> TRUE,
         im |-> [m2 EXCEPT
                   !.stk_per_rev = stk_per_rev,
                   !.idx_sz = IF trim THEN idx0 - gap_4a ELSE idx0,
                   !.gap_4a = IF trim THEN 0 ELSE gap_4a,
                   !.data_rate = data_rate,
                   !.tracklen_bc = tracklen_bc,
                   !.ticks_per_cell =
                        (sysclk_stk(stk_per_rev) * 16) \div tracklen_bc,
                   !.gap_4 = (tracklen_bc - tracklen) \div 16,
                   !.write_bc_ticks = sysclk_ms(1) \div data_rate,
                   !.sync = SYNC_mfm]]

FM_GAP_3 == <<27, 42, 58, 138, 255, 255, 255, 255>>

\* fm_open: asserted is FALSE when ASSERT(tracklen_bc > tracklen) fails.
fm_open(m0) ==
    IF open_rejects(m0) THEN [ok |-> FALSE, asserted |-> TRUE, im |-> m0]
    ELSE
    LET rpm    == IF m0.rpm # 0 THEN m0.rpm ELSE 300
        gap_2  == IF m0.gap_2 # 0 THEN m0.gap_2 ELSE FM_GAP_2
        gap_3  == IF m0.gap_3 # 0 THEN m0.gap_3 ELSE FM_GAP_3[m0.sec_no + 1]
        gap_4a == IF m0.gap_4a # 0 THEN m0.gap_4a ELSE FM_GAP_4A
        stk_per_rev == (stk_ms(200) * 300) \div rpm
        m2 == [m0 EXCEPT !.rpm = rpm, !.gap_2 = gap_2, !.gap_3 = gap_3,
                         !.gap_4a = gap_4a,
                         !.idx_sz = gap_4a,
                         !.idam_sz = FM_GAP_SYNC + 5 + 2 + gap_2,
                         !.dam_sz_pre = FM_GAP_SYNC + 1,
                         !.dam_sz_post = 2 + gap_3]
        tracklen == ((enc_sec_sz(m2) * m0.nr_sectors + gap_4a) * 16)
        data_rate == 250
        bc0 == (data_rate * 200 * 300) \div rpm
        tracklen_bc == round_up_32(bc0)
    IN  [ok |-> TRUE,
         asserted |-> bc0 > tracklen,
         im |-> [m2 EXCEPT
                   !.stk_per_rev = stk_per_rev,
                   !.data_rate = data_rate,
                   !.tracklen_bc = tracklen_bc,
                   !.ticks_per_cell =
                        (sysclk_stk(stk_per_rev) * 16) \div tracklen_bc,
                   !.gap_4 = (tracklen_bc - tracklen) \div 16,
                   !.write_bc_ticks = sysclk_ms(1) \div data_rate,
                   !.sync = SYNC_fm]]

\* _img_open, from the label found: the fields copied from a table row.
img_open_found(m0, type, nr_cyls) ==
    LET b1 == IF type.inter_track_numbering = 1
              THEN U8(type.base + type.nr_secs) ELSE type.base
    IN  mfm_open([m0 EXCEPT
            !.nr_cyls = nr_cyls, !.nr_sides = type.nr_sides + 1,
            !.sec_no = type.no, !.interleave = type.interleave,
            !.skew = type.skew, !.nr_sectors = type.nr_secs,
            !.gap_3 = type.gap3, !.rpm = (type.rpm + 5) * 60,
            !.sec_base = <<type.base, b1>>,
            !.has_iam = (type.has_iam = 1)])

\* jvc_open with a 5-byte header {spt, sides, ssize_code, sec_id, attr = 0}
\* in front of nr_cyls whole cylinders.
jvc_open(spt, sides, ssize_code, sec_id, nr_cyls) ==
    mfm_open([ZeroImage EXCEPT
        !.base_off = 5, !.nr_sides = sides, !.sec_no = ssize_code % 4,
        !.interleave = 3, !.sec_base = <<sec_id, sec_id>>,
        !.nr_sectors = spt, !.nr_cyls = nr_cyls,
        !.gap_3 = 20, !.gap_4a = 54, !.has_iam = TRUE])

(***************************************************************************)
(* img_seek_track: the rotational sector map and the track's file offset.  *)
(***************************************************************************)

\* while (sec_map[pos] != 0xff) pos = (pos + 1) % nr_sectors;
\* -1 when every slot was probed and none is free (the loop never ends).
RECURSIVE seek_slot(_, _, _, _)
seek_slot_skip_none(map, pos, n, k) == pos
seek_slot(map, pos, n, k) ==
    IF map[pos] = 255 THEN pos
    ELSE IF k >= n THEN -1
    ELSE seek_slot(map, (pos + 1) % n, n, k + 1)

RECURSIVE sec_map_fill(_, _, _, _, _, _)
sec_map_fill(map, pos, i, n, base, interleave) ==
    IF i >= n THEN [map |-> map, hang |-> FALSE]
    ELSE LET p == seek_slot(map, pos, n, 0)
         IN  IF p < 0 THEN [map |-> map, hang |-> TRUE]
             ELSE sec_map_fill([map EXCEPT ![p] = U8(i + base)],
                               (p + interleave) % n, i + 1, n, base,
                               interleave)

track_index_interleaved(m, cyl, side) == cyl * m.nr_sides + side
track_index(m, cyl, side) ==
    IF m.layout = LAYOUT_sequential_reverse_side1
    THEN (IF side # 0 THEN 2 * m.nr_cyls - cyl - 1 ELSE cyl)
    ELSE IF m.layout = LAYOUT_interleaved_swap_sides
    THEN LET trk == cyl * m.nr_sides + side
         IN  IF m.nr_sides = 2 THEN (IF trk % 2 = 0 THEN trk + 1 ELSE trk - 1)
             ELSE trk
    ELSE cyl * m.nr_sides + side

img_seek_track(m, track, cyl, side) ==
    LET trk  == cyl * m.nr_sides + side
        m1   == [m EXCEPT !.cur_track = track]
        n    == m.nr_sectors
        pos  == ((IF m.skew_cyls_only THEN cyl ELSE trk) * m.skew) % n
        fill == sec_map_fill([i \in 0..(n - 1) |-> 255], pos, 0, n,
                             sec_base(m1), m.interleave)
        trk_len == (n * sec_sz(m))
    IN  [hang |-> fill.hang,
         im |-> [m1 EXCEPT
                   !.sec_map = fill.map,
                   !.trk_off = ((track_index(m, cyl, side) * trk_len)
                                   + m.base_off)]]


(***************************************************************************)
(* The image file (F_lseek + F_read / F_write) and the ring buffers.       *)
(* A file is its initial contents (a fill rule) and the writes made since. *)
(***************************************************************************)

\* Initial byte at offset o: fill < 256 is a constant fill byte, any other
\* fill is a varied pattern of bytes.
file_init(fill, o) ==
    IF fill < 256 THEN fill ELSE U8(o * 31 + (o \div 256) * 7 + fill)

RECURSIVE log_byte(_, _, _, _)
log_byte(log, k, fill, o) ==
    IF k = 0 THEN file_init(fill, o)
    ELSE IF o >= log[k].off /\ o < log[k].off + Len(log[k].data)
         THEN log[k].data[o - log[k].off + 1]
         ELSE log_byte(log, k - 1, fill, o)

byte_at(f, o) == log_byte(f.log, Len(f.log), f.fill, o)

F_read(f, off, len) == [i \in 1..len |-> byte_at(f, off + i - 1)]
F_write(f, off, data) == [f EXCEPT !.log = Append(@, [off |-> off, data |-> data])]

\* bufs.read_bc.len in bytes: a power of two that holds the largest chunk
\* (1024 words) the read path publishes in one call.
BC_LEN == 2048

Rep(x, n) == [i \in 1..n |-> x]

\* Store ws at ring indexes p, p+1, ... (mod L) of the ring buf (1-based seq).
ring_put(buf, L, p, ws) ==
    LET n == Len(ws)
        s == p % L
    IN  IF s + n <= L
        THEN SubSeq(buf, 1, s) \o ws \o SubSeq(buf, s + n + 1, L)
        ELSE LET k == L - s
             IN  SubSeq(ws, k + 1, n) \o SubSeq(buf, n - k + 1, s)
                 \o SubSeq(ws, 1, k)

\* bc_space = bc_len - (uint16_t)(bc_p - bc_c)
bc_space_unchecked(bc_len, bc_p, bc_c) == bc_len
bc_space_keep_one(bc_len, bc_p, bc_c) == bc_len - U16(bc_p - bc_c) - 1
bc_space(bc_len, bc_p, bc_c) == bc_len - U16(bc_p - bc_c)

(***************************************************************************)
(* img_fetch_data, calc_start_pos.                                         *)
(***************************************************************************)
\* [im, rd, seek, len]: seek the offset given to F_lseek and len the length
\* given to F_read (-1 when nothing is read).
img_fetch_data(m, r, f) ==
    IF r.prod # r.cons THEN [im |-> m, rd |-> r, seek |-> -1, len |-> -1]
    ELSE
    LET sec == U8(m.sec_map[m.trk_sec] - sec_base(m))
        off == U16(sec * sec_sz(m) + m.rd_sec_pos * 1024)
        len == U16(sec_sz(m) - m.rd_sec_pos * 1024)
        more == len > 1024
    IN  [im |-> [m EXCEPT
                   !.rd_sec_pos = IF more THEN @ + 1 ELSE 0,
                   !.trk_sec = IF more THEN @
                               ELSE IF @ + 1 >= m.nr_sectors THEN 0 ELSE @ + 1],
         rd |-> [r EXCEPT
                   !.buf = F_read(f, m.trk_off + off, IF more THEN 1024 ELSE len),
                   !.prod = @ + 1],
         seek |-> m.trk_off + off, len |-> IF more THEN 1024 ELSE len]

\* calc_start_pos: [im, decode_off].
calc_start_pos_index(m0) ==
    [im |-> [m0 EXCEPT !.crc = 65535, !.trk_sec = 0, !.rd_sec_pos = 0,
                       !.decode_data_pos = 0, !.decode_pos = 0],
     decode_off |-> m0.cur_bc \div 16]
calc_start_pos(m0) ==
    LET m   == [m0 EXCEPT !.crc = 65535, !.trk_sec = 0, !.rd_sec_pos = 0,
                          !.decode_data_pos = 0]
        d0  == m0.cur_bc \div 16
        ess == enc_sec_sz(m0)
        d1  == d0 - m0.idx_sz
        sec == d1 \div ess
        d2  == d1 - sec * ess
        d3  == d2 - m0.idam_sz
        d4  == d3 - m0.dam_sz_pre
        d5  == d1 - m0.nr_sectors * ess
    IN  IF d0 < m0.idx_sz THEN
            [im |-> [m EXCEPT !.decode_pos = 0], decode_off |-> d0]
        ELSE IF sec >= m0.nr_sectors THEN
            [im |-> [m EXCEPT !.decode_pos = m0.nr_sectors * 4 + 1,
                              !.decode_data_pos = d5 \div 1024],
             decode_off |-> d5 % 1024]
        ELSE IF d2 < m0.idam_sz THEN
            [im |-> [m EXCEPT !.trk_sec = sec, !.decode_pos = sec * 4 + 1],
             decode_off |-> d2]
        ELSE IF d3 < m0.dam_sz_pre THEN
            [im |-> [m EXCEPT !.trk_sec = sec, !.decode_pos = sec * 4 + 2],
             decode_off |-> d3]
        ELSE IF d4 < sec_sz(m0) THEN
            [im |-> [m EXCEPT !.trk_sec = sec, !.decode_pos = sec * 4 + 3,
                              !.rd_sec_pos = d4 \div 1024,
                              !.decode_data_pos = d4 \div 1024],
             decode_off |-> d4 % 1024]
        ELSE
            [im |-> [m EXCEPT !.trk_sec = (sec + 1) % m0.nr_sectors,
                              !.decode_pos = sec * 4 + 4],
             decode_off |-> d4 - sec_sz(m0)]

(***************************************************************************)
(* mfm_read_track / fm_read_track.                                         *)
(***************************************************************************)

\* emit_raw: _r & ~(pr << 15), pr the raw word emitted before it in the
\* same call and 0 for the first word of a call (uint16_t pr = 0).
pr_mask(r, pr) == IF pr % 2 = 1 /\ r >= 32768 THEN r - 32768 ELSE r

mfm_emit(raws) ==
    [i \in 1..Len(raws) |->
        htobe16(pr_mask(raws[i], IF i = 1 THEN 0 ELSE raws[i - 1]))]

\* emit_byte over a run of bytes (MFM): the raw words before masking.
mfm_bytes(bs) == [i \in 1..Len(bs) |-> mfmtab[bs[i]]]

\* w & 0x5555: the data cells of a word.
data_cells(w) == Bit(w,14)*16384 + Bit(w,12)*4096 + Bit(w,10)*1024
               + Bit(w,8)*256 + Bit(w,6)*64 + Bit(w,4)*16 + Bit(w,2)*4
               + Bit(w,0)

fm_sync(dat, clk) == data_cells(mfmtab[clk]) * 2 + data_cells(mfmtab[dat])

\* emit_byte (FM): mfmtab[b] | 0xaaaa, stored big endian.
fm_word(b) == htobe16(data_cells(mfmtab[b]) + 43690)
fm_bytes(bs) == [i \in 1..Len(bs) |-> fm_word(bs[i])]

\* decode_pos after the last GAP4 chunk, before the final decode_pos++.
gap4_next_pos_index(idx_sz) == -1
gap4_next_pos(idx_sz) == IF idx_sz # 0 THEN -1 ELSE 0

\* The part of a large region one call publishes and whether more remains.
chunk_short(sz) == Min(sz, 512)
chunk_len(sz) == Min(sz, 1024)

phase_kind(m) ==
    IF m.decode_pos = 0 THEN "IDX"
    ELSE IF m.decode_pos = m.nr_sectors * 4 + 1 THEN "GAP4"
    ELSE <<"IDAM", "DAM", "DATA", "POST">>[((m.decode_pos - 1) % 4) + 1]

phase_slot(m) ==
    IF phase_kind(m) \in {"IDX", "GAP4"} THEN -1 ELSE (m.decode_pos - 1) \div 4

\* One phase of the MFM track: the space it needs, the stored words, and
\* the image state after it (decode_pos++ included).
mfm_phase(m, buf) ==
    LET kind == phase_kind(m)
        cyl  == U8(m.cur_track \div 2)
        hd   == m.cur_track % 2
        gsz  == U16(m.gap_4 - m.decode_data_pos * 1024)
        dsz  == U16(U16(sec_sz(m)) - m.decode_data_pos * 1024)
    IN  CASE kind = "IDX" ->
            [need |-> m.idx_sz,
             words |-> mfm_emit(
                 Rep(mfmtab[78], m.gap_4a)
                 \o (IF m.has_iam
                     THEN Rep(mfmtab[0], GAP_SYNC) \o Rep(21028, 3)
                          \o <<mfmtab[252]>> \o Rep(mfmtab[78], GAP_1)
                     ELSE <<>>)),
             im |-> [m EXCEPT !.decode_pos = @ + 1], data |-> FALSE]
          [] kind = "GAP4" ->
            [need |-> chunk_len(gsz),
             words |-> mfm_emit(Rep(mfmtab[78], chunk_len(gsz))),
             im |-> IF gsz > 1024
                    THEN [m EXCEPT !.decode_data_pos = @ + 1]
                    ELSE [m EXCEPT !.decode_data_pos = 0,
                                   !.decode_pos = gap4_next_pos(m.idx_sz) + 1],
             data |-> FALSE]
          [] kind = "IDAM" ->
            LET sec  == m.sec_map[(m.decode_pos - 1) \div 4]
                idam == <<161, 161, 161, 254, cyl, hd, sec, m.sec_no>>
                crc  == crc16_ccitt(idam, 65535)
            IN  [need |-> m.idam_sz,
                 words |-> mfm_emit(
                     Rep(mfmtab[0], idam_gap_sync(m)) \o Rep(17545, 3)
                     \o mfm_bytes(SubSeq(idam, 4, 8))
                     \o mfm_bytes(<<crc \div 256, U8(crc)>>)
                     \o Rep(17545, m.post_crc_syncs)
                     \o Rep(mfmtab[78], m.gap_2)),
                 im |-> [m EXCEPT !.decode_pos = @ + 1], data |-> FALSE]
          [] kind = "DAM" ->
            [need |-> m.dam_sz_pre,
             words |-> mfm_emit(Rep(mfmtab[0], GAP_SYNC) \o Rep(17545, 3)
                                \o <<mfmtab[251]>>),
             im |-> [m EXCEPT !.decode_pos = @ + 1,
                        !.crc = crc16_ccitt(<<161, 161, 161, 251>>, 65535)],
             data |-> FALSE]
          [] kind = "DATA" ->
            LET bs == SubSeq(buf, 1, chunk_len(dsz))
            IN  [need |-> chunk_len(dsz),
                 words |-> mfm_emit(mfm_bytes(bs)),
                 im |-> [m EXCEPT
                          !.decode_data_pos = IF dsz > 1024 THEN @ + 1 ELSE 0,
                          !.decode_pos = IF dsz > 1024 THEN @ ELSE @ + 1,
                          !.crc = crc16_ccitt(bs, m.crc)],
                 data |-> TRUE]
          [] OTHER ->
            [need |-> m.dam_sz_post,
             words |-> mfm_emit(
                 mfm_bytes(<<m.crc \div 256, U8(m.crc)>>)
                 \o Rep(17545, m.post_crc_syncs)
                 \o Rep(mfmtab[78], m.gap_3)),
             im |-> [m EXCEPT !.decode_pos = @ + 1], data |-> FALSE]

\* One phase of the FM track.
fm_phase(m, buf) ==
    LET kind == phase_kind(m)
        cyl  == U8(m.cur_track \div 2)
        hd   == m.cur_track % 2
        gsz  == U16(m.gap_4 - m.decode_data_pos * 1024)
        dsz  == U16(U16(sec_sz(m)) - m.decode_data_pos * 1024)
    IN  CASE kind = "IDX" ->
            [need |-> m.idx_sz,
             words |-> Rep(fm_word(255), m.gap_4a),
             im |-> [m EXCEPT !.decode_pos = @ + 1], data |-> FALSE]
          [] kind = "GAP4" ->
            [need |-> chunk_len(gsz),
             words |-> Rep(fm_word(255), chunk_len(gsz)),
             im |-> IF gsz > 1024
                    THEN [m EXCEPT !.decode_data_pos = @ + 1]
                    ELSE [m EXCEPT !.decode_data_pos = 0,
                                   !.decode_pos = gap4_next_pos(m.idx_sz) + 1],
             data |-> FALSE]
          [] kind = "IDAM" ->
            LET sec  == m.sec_map[(m.decode_pos - 1) \div 4]
                idam == <<254, cyl, hd, sec, m.sec_no>>
                crc  == crc16_ccitt(idam, 65535)
            IN  [need |-> m.idam_sz,
                 words |-> Rep(fm_word(0), FM_GAP_SYNC)
                     \o <<htobe16(fm_sync(254, FM_SYNC_CLK))>>
                     \o fm_bytes(SubSeq(idam, 2, 5))
                     \o fm_bytes(<<crc \div 256, U8(crc)>>)
                     \o Rep(fm_word(255), m.gap_2),
                 im |-> [m EXCEPT !.decode_pos = @ + 1], data |-> FALSE]
          [] kind = "DAM" ->
            [need |-> m.dam_sz_pre,
             words |-> Rep(fm_word(0), FM_GAP_SYNC)
                       \o <<htobe16(fm_sync(251, FM_SYNC_CLK))>>,
             im |-> [m EXCEPT !.decode_pos = @ + 1,
                              !.crc = crc16_ccitt(<<251>>, 65535)],
             data |-> FALSE]
          [] kind = "DATA" ->
            LET bs == SubSeq(buf, 1, chunk_len(dsz))
            IN  [need |-> chunk_len(dsz),
                 words |-> fm_bytes(bs),
                 im |-> [m EXCEPT
                          !.decode_data_pos = IF dsz > 1024 THEN @ + 1 ELSE 0,
                          !.decode_pos = IF dsz > 1024 THEN @ ELSE @ + 1,
                          !.crc = crc16_ccitt(bs, m.crc)],
                 data |-> TRUE]
          [] OTHER ->
            [need |-> m.dam_sz_post,
             words |-> fm_bytes(<<m.crc \div 256, U8(m.crc)>>)
                       \o Rep(fm_word(255), m.gap_3),
             im |-> [m EXCEPT !.decode_pos = @ + 1], data |-> FALSE]

\* mfm_read_track / fm_read_track: [ret, im, rd, bc, words].
img_read_track(m0, r0, b0, f) ==
    LET bc_p   == b0.prod \div 16
        bc_c   == b0.cons \div 16
        \* bc->len / 2: the words the ring holds
        bc_len == Len(b0.buf)
        space  == bc_space(bc_len, bc_p, bc_c)
    IN  Bind(img_fetch_data(m0, r0, f), LAMBDA fd :
        Bind(IF m0.sync = SYNC_fm THEN fm_phase(fd.im, fd.rd.buf)
             ELSE mfm_phase(fd.im, fd.rd.buf), LAMBDA ph :
        IF space < ph.need
        THEN [ret |-> FALSE, im |-> fd.im, rd |-> fd.rd, bc |-> b0,
              words |-> <<>>]
        ELSE [ret |-> TRUE, im |-> ph.im,
              rd |-> IF ph.data THEN [fd.rd EXCEPT !.cons = @ + 1] ELSE fd.rd,
              bc |-> [b0 EXCEPT
                        !.buf = ring_put(@, bc_len, bc_p, ph.words),
                        !.prod = (bc_p + Len(ph.words)) * 16],
              words |-> ph.words]))

\* img_setup_track; start_pos = -1 stands for a NULL start_pos (write mode).
\* image_read_track() is one call of the handler's read_track.
img_setup_track(m0, r0, b0, f, track0, start_pos) ==
    LET sys_ticks == IF start_pos >= 0 THEN start_pos ELSE 0
        cyl   == Min(U8(track0 \div 2), m0.nr_cyls - 1)
        side  == Min(track0 % 2, m0.nr_sides - 1)
        track == cyl * 2 + side
        bc0   == ((sys_ticks * 16) \div m0.ticks_per_cell)
        bc1   == bc0 - (bc0 % 16)
        cur   == IF bc1 >= m0.tracklen_bc THEN 0 ELSE bc1
        r1    == [r0 EXCEPT !.prod = 0, !.cons = 0]
        b1    == [b0 EXCEPT !.prod = 0, !.cons = 0]
    IN  Bind(IF track # m0.cur_track
             THEN img_seek_track(m0, track, cyl, side)
             ELSE [hang |-> FALSE, im |-> m0], LAMBDA sk :
        IF sk.hang
        THEN [hang |-> TRUE, ret |-> FALSE, im |-> sk.im, rd |-> r0, bc |-> b0,
              words |-> <<>>]
        ELSE
        Bind(calc_start_pos([sk.im EXCEPT
                               !.write_sector = -1, !.cur_bc = cur,
                               !.cur_ticks = cur * m0.ticks_per_cell,
                               !.ticks_since_flux = 0]), LAMBDA sp :
        IF start_pos >= 0
        THEN Bind(img_read_track(sp.im, r1, b1, f), LAMBDA rt :
             [hang |-> FALSE, ret |-> rt.ret, im |-> rt.im, rd |-> rt.rd,
              bc |-> [rt.bc EXCEPT !.cons = sp.decode_off * 16],
              words |-> rt.words])
        ELSE [hang |-> FALSE, ret |-> FALSE, im |-> sp.im, rd |-> r1,
              bc |-> b1, words |-> <<>>]))

(***************************************************************************)
(* The write path: mfm_write_track, fm_write_track.                        *)
(***************************************************************************)

\* int8_t: im->img.write_sector is a signed byte (its range test at the
\* IDAM lock is made on (uint8_t)write_sector).
I8(x) == IF U8(x) >= 128 THEN U8(x) - 256 ELSE U8(x)

\* buf[i & bufmask], bufmask = wr->len / 2 - 1: the ring holds Len(buf) words.
wr_word(w, i) == w.buf[(i % Len(w.buf)) + 1]

\* wrbuf[k] = mfmtobin(buf[c++ & bufmask]) for n words from index c.
wr_bytes(w, c, n) == [k \in 1..n |-> mfmtobin(wr_word(w, c + k - 1))]

\* Bytes a read of sec_map[] below index 0 can return.
sec_map_oob == {0, 3, 253, 255}

\* Convert write offset to sector number (in rotational order), base the
\* write's start in data bytes (uint32_t): the quotient as write_sector
\* holds it.
infer_rotational(m, base) ==
    I8(u32_div(base - m.idx_sz - m.idam_sz + enc_sec_sz(m) \div 2,
               enc_sec_sz(m)))

\* The values write_sector can have after the conversion to logical order.
infer_write_sector(m, base) ==
    LET q == infer_rotational(m, base)
    IN  IF q >= m.nr_sectors THEN {-2}
        ELSE IF q >= 0 THEN {I8(m.sec_map[q] - sec_base(m))}
        ELSE {I8(v - sec_base(m)) : v \in sec_map_oob}

\* The IDAM lock: write_sector = id - sec_base(im), -2 when out of range.
idam_write_sector_unchecked(m, id) == I8(id - sec_base(m))
idam_write_sector(m, id) ==
    LET ws == I8(id - sec_base(m))
    IN  IF U8(ws) >= m.nr_sectors THEN -2 ELSE ws

\* The DAM is written out: its CRC is good and the sector is known.
dam_commits_any(crc, ws) == crc = 0
dam_commits(crc, ws) == crc = 0 /\ ws >= 0

\* The scan loop runs while (int16_t)(p - c) >= T and skips a word that is
\* not `sync': the index it stops at or finds `sync' at.
scan_stop(w, c, p, T, sync) ==
    CHOOSE i \in c..Max(c, p) :
        /\ I16(p - i) < T \/ wr_word(w, i) = sync \/ i = Max(c, p)
        /\ \A j \in c..(i - 1) : I16(p - j) >= T /\ wr_word(w, j) # sync

\* The IDAM and DAM cases of the switch, shared by MFM and FM: hdr is the
\* header the CRC covers before the first collected byte, c indexes the
\* word after the mark.  [im, file, c, ev], ev the marks decoded so far:
\* the mark, the index c, the CRC, and write_sector and the number of file
\* writes after it.
\* F_lseek(&im->fp, im->img.trk_off + im->img.write_sector*sec_sz(im))
dam_offset_track(m) == m.trk_off
dam_offset(m) == m.trk_off + m.write_sector * sec_sz(m)

\* for (i = 0; i < (sec_sz(im) + 2); i++): the words a DAM takes from the
\* ring after its mark, payload and CRC.
dam_words_crc32(m) == sec_sz(m) + 4
dam_words(m) == sec_sz(m) + 2

mark_case(m, w, f, c, x, hdr, ev) ==
    IF x = 254
    THEN Bind(wr_bytes(w, c, 6), LAMBDA bs :
         Bind(crc16_ccitt(bs, crc16_ccitt(hdr, 65535)), LAMBDA crc :
           [im |-> IF crc # 0 THEN m
                   ELSE [m EXCEPT
                           !.write_sector = idam_write_sector(m, bs[3])],
            file |-> f, c |-> c + 6,
            ev |-> Append(ev, [mark |-> x, c |-> c, crc |-> crc,
                               ws |-> IF crc # 0 THEN m.write_sector
                                      ELSE idam_write_sector(m, bs[3]),
                               nlog |-> Len(f.log)])]))
    ELSE IF x = 251
    THEN Bind(wr_bytes(w, c, dam_words(m)), LAMBDA bs :
         Bind(crc16_ccitt(bs, crc16_ccitt(hdr, 65535)), LAMBDA crc :
         Bind(IF dam_commits(crc, m.write_sector)
              THEN F_write(f, dam_offset(m),
                           SubSeq(bs, 1, sec_sz(m)))
              ELSE f, LAMBDA f1 :
           [im |-> m, file |-> f1, c |-> c + dam_words(m),
            ev |-> Append(ev, [mark |-> x, c |-> c, crc |-> crc,
                               ws |-> m.write_sector,
                               nlog |-> Len(f1.log)])])))
    ELSE [im |-> m, file |-> f, c |-> c, ev |-> ev]

\* The scan loop of mfm_write_track from word index c: [im, file, c, ev].
RECURSIVE mfm_scan(_, _, _, _, _, _)
mfm_scan(m, w, f, c0, p, ev) ==
    Bind(scan_stop(w, c0, p, 3 + sec_sz(m) + 2, htobe16(17545)), LAMBDA c :
    IF I16(p - c) < 3 + sec_sz(m) + 2
    THEN [im |-> m, file |-> f, c |-> c, ev |-> ev]
    ELSE Bind(mfmtobin(wr_word(w, c + 1)), LAMBDA x1 :
         Bind(mark_case(m, w, f,
                        IF x1 = 161 THEN c + 3 ELSE c + 2,
                        IF x1 = 161 THEN mfmtobin(wr_word(w, c + 2)) ELSE x1,
                        <<161, 161, 161,
                          IF x1 = 161 THEN mfmtobin(wr_word(w, c + 2))
                          ELSE x1>>, ev), LAMBDA r :
         mfm_scan(r.im, w, r.file, r.c, p, r.ev))))

\* The scan loop of fm_write_track from word index c: [im, file, c, ev].
RECURSIVE fm_scan(_, _, _, _, _, _)
fm_scan(m, w, f, c0, p, ev) ==
    Bind(scan_stop(w, c0, p, 2 + sec_sz(m) + 2, 43690), LAMBDA c :
    IF I16(p - c) < 2 + sec_sz(m) + 2
    THEN [im |-> m, file |-> f, c |-> c, ev |-> ev]
    ELSE Bind(wr_word(w, c + 1), LAMBDA sync :
         IF mfmtobin(sync \div 2) # FM_SYNC_CLK
         THEN fm_scan(m, w, f, c + 1, p, ev)
         ELSE Bind(mark_case(m, w, f, c + 2, mfmtobin(sync),
                             <<mfmtobin(sync)>>, ev), LAMBDA r :
              fm_scan(r.im, w, r.file, r.c, p, r.ev))))

\* mfm_write_track / fm_write_track with the write descriptor q: the set of
\* results [ret, im, p, wr, file, ev, ws0, smi] (one for each value ws0 the
\* sector conversion can leave in write_sector; smi holds the index the
\* conversion applied sec_map[] to).
img_write_track(m0, w, q, f) ==
    LET c     == w.cons \div 16
        flush == q.wr_cons # q.wr_bc
        p     == IF flush THEN (q.bc_end + 15) \div 16 ELSE w.prod \div 16
        base  == q.start \div m0.ticks_per_cell
    IN  { Bind(IF m0.sync = SYNC_fm
               THEN fm_scan([m0 EXCEPT !.write_sector = ws], w, f, c, p, <<>>)
               ELSE mfm_scan([m0 EXCEPT !.write_sector = ws], w, f, c, p, <<>>),
               LAMBDA r :
               [ret |-> flush, im |-> r.im, p |-> p,
                wr |-> [w EXCEPT !.cons = r.c * 16],
                file |-> r.file, ev |-> r.ev, ws0 |-> ws,
                smi |-> IF /\ m0.write_sector = -1
                           /\ infer_rotational(m0, base) < m0.nr_sectors
                        THEN {infer_rotational(m0, base)} ELSE {}]) :
          ws \in IF m0.write_sector = -1
                 THEN infer_write_sector(m0, base)
                 ELSE {m0.write_sector} }

(***************************************************************************)
(* HFE: hfe_open, hfe_seek_track, hfe_setup_track, hfe_read_track,         *)
(* hfe_write_track.                                                        *)
(***************************************************************************)
OP_nop     == 0
OP_index   == 8
OP_bitrate == 4
OP_skip    == 12
OP_rand    == 2

sysclk_us(us) == us * SYSCLK_MHZ
sysclk_ns(ns) == (ns * SYSCLK_MHZ) \div 1000
stk_sysclk(x) == (x * STK_MHZ) \div SYSCLK_MHZ

le16(f, off) == byte_at(f, off) + 256 * byte_at(f, off + 1)

SIG_HFEV3 == <<72, 88, 67, 72, 70, 69, 86, 51>>
SIG_PICFE == <<72, 88, 67, 80, 73, 67, 70, 69>>

hfe_seek_track(m, f, track) ==
    LET at      == m.hfe.tlut_base * 512 + (track \div 2) * 4
        trk_len == le16(f, at + 2) \div 2
    IN  [m EXCEPT !.hfe.trk_off = le16(f, at),
                  !.hfe.trk_len = trk_len,
                  !.tracklen_bc = trk_len * 8,
                  !.stk_per_rev = stk_sysclk(trk_len * 8 * m.write_bc_ticks),
                  !.cur_track = track]

hfe_open(f) ==
    LET sig  == F_read(f, 0, 8)
        rev  == byte_at(f, 8)
        nr_tracks == byte_at(f, 9)
        nr_sides  == byte_at(f, 10)
        bitrate   == le16(f, 12)
        double_step == byte_at(f, 21) = 0
        m == [ZeroImage EXCEPT
                !.handler = "hfe",
                !.hfe.is_v3 = (sig = SIG_HFEV3),
                !.hfe.double_step = double_step,
                !.hfe.tlut_base = le16(f, 18),
                !.nr_cyls = IF double_step THEN Min(nr_tracks * 2, 255)
                            ELSE nr_tracks,
                !.nr_sides = nr_sides,
                !.write_bc_ticks = sysclk_us(500) \div bitrate,
                !.ticks_per_cell = (sysclk_us(500) \div bitrate) * 16,
                !.sync = SYNC_none]
    IN  IF \/ sig \notin {SIG_HFEV3, SIG_PICFE}
           \/ (sig = SIG_HFEV3 /\ rev > 0)
           \/ (sig = SIG_PICFE /\ rev > 1)
           \/ nr_tracks = 0 \/ nr_sides < 1 \/ nr_sides > 2 \/ bitrate = 0
        THEN [ok |-> FALSE, im |-> ZeroImage]
        ELSE [ok |-> TRUE, im |-> hfe_seek_track(m, f, 0)]

\* hfe_read_track: [ret, im, rd, bc, words].
hfe_read_track(m0, r0, b0, f) ==
    LET refill == r0.prod = r0.cons
        nr_sec == Min(m0.hfe.batch_secs,
                      (m0.hfe.trk_len + 255 - m0.hfe.trk_pos) \div 256)
        pos1   == m0.hfe.trk_pos + nr_sec * 256
        m1     == IF refill
                  THEN [m0 EXCEPT !.hfe.trk_pos =
                                     IF pos1 >= m0.hfe.trk_len THEN 0 ELSE pos1]
                  ELSE m0
        bc_p   == b0.prod \div 8
        bc_c   == b0.cons \div 8
        space  == bc_space(BC_LEN, bc_p, bc_c)
    IN  Bind(IF refill
             THEN [prod |-> nr_sec, cons |-> 0,
                   buf |-> F_read(f, m0.hfe.trk_off * 512
                                     + m0.hfe.trk_pos * 2, nr_sec * 512)]
             ELSE r0, LAMBDA r1 :
        LET n     == Min(r1.prod - r1.cons, space \div 256)
            at(k) == (r1.cons + k) * 512 + (m0.cur_track % 2) * 256
        IN  IF n = 0
            THEN [ret |-> FALSE, im |-> m1, rd |-> r1, bc |-> b0,
                  words |-> <<>>]
            ELSE Bind([i \in 1..(n * 256) |->
                         r1.buf[at((i - 1) \div 256) + ((i - 1) % 256) + 1]],
                 LAMBDA data :
                 [ret |-> TRUE, im |-> m1,
                  rd |-> [r1 EXCEPT !.cons = @ + n],
                  bc |-> [b0 EXCEPT !.buf = ring_put(@, BC_LEN, bc_p, data),
                                    !.prod = (bc_p + n * 256) * 8],
                  words |-> data]))

\* hfe_setup_track; start_pos = -1 stands for a NULL start_pos (write
\* mode), wstart is get_write(im, im->wr_cons)->start.
hfe_setup_track(m0, r0, b0, f, track0, start_pos, wstart) ==
    LET cyl   == U8(track0 \div (IF m0.hfe.double_step THEN 4 ELSE 2))
        side  == IF m0.nr_sides = 2 THEN track0 % 2 ELSE 0
        track == cyl * 2 + side
    IN  Bind(IF track # m0.cur_track THEN hfe_seek_track(m0, f, track)
             ELSE m0, LAMBDA m1 :
    LET bc0   == ((IF start_pos >= 0 THEN start_pos ELSE wstart) * 16)
                 \div m1.ticks_per_cell
        cur   == IF bc0 >= m1.tracklen_bc THEN 0 ELSE bc0
        ticks == cur * m1.ticks_per_cell
        m2    == [m1 EXCEPT
                    !.cur_bc = cur, !.cur_ticks = ticks,
                    !.ticks_since_flux = 0,
                    !.hfe.next_index_pulses_pos =
                        LET later == {i \in 0..(m1.index_pulses_len - 1) :
                                         ticks < m1.index_pulses[i]}
                        IN  IF later = {} THEN m1.index_pulses_len
                            ELSE CHOOSE i \in later :
                                    \A j \in later : i <= j,
                    !.hfe.batch_secs =
                        IF m1.write_bc_ticks > sysclk_ns(1500) THEN 2 ELSE 8,
                    !.hfe.trk_pos = (cur \div 8) - ((cur \div 8) % 256)]
    IN  IF start_pos < 0
        THEN [hang |-> FALSE, ret |-> FALSE,
              im |-> [m2 EXCEPT
                        !.hfe.trk_pos = cur \div 8,
                        !.hfe.write = [start |-> cur \div 8,
                                       wrapped |-> FALSE],
                        !.hfe.write_batch.len = 0,
                        !.hfe.write_batch.dirty = FALSE],
              rd |-> [r0 EXCEPT !.prod = 0, !.cons = 0],
              bc |-> [b0 EXCEPT !.prod = 0, !.cons = 0], words |-> <<>>]
        ELSE
        Bind(hfe_read_track(m2, [r0 EXCEPT !.prod = 0, !.cons = 0],
                            [b0 EXCEPT !.prod = 0, !.cons = 0], f),
             LAMBDA rt :
             [hang |-> FALSE, ret |-> rt.ret, im |-> rt.im, rd |-> rt.rd,
              bc |-> [rt.bc EXCEPT !.cons = cur % 2048],
              words |-> rt.words]))

\* *tbuf++ = (ticks >> 4) - 1: the sample is a uint16_t.
flux_sample_wide(ticks) == (ticks \div 16) - 1
flux_sample(ticks) == U16((ticks \div 16) - 1)

\* The inner loop of hfe_rdata_flux, while (y < 8), on st = [x, y, ticks,
\* todo, out, sum, cells]: a 1 bit emits a flux sample and keeps the low 4
\* bits of ticks; out is set by the goto when the last sample asked for is
\* emitted.  sum adds up (sample + 1) * 16 over the samples emitted, cells
\* the ticks_per_cell of the bitcells passed.
RECURSIVE flux_bits(_, _)
flux_bits(st, tpc) ==
    IF st.y >= 8 THEN st
    ELSE IF st.x % 2 = 0
    THEN flux_bits([st EXCEPT !.y = @ + 1, !.ticks = @ + tpc,
                              !.x = @ \div 2, !.cells = @ + tpc], tpc)
    ELSE IF st.todo = 1
    THEN [st EXCEPT !.y = @ + 1, !.ticks = (@ + tpc) % 16, !.todo = 0,
                    !.out = TRUE, !.cells = @ + tpc,
                    !.sum = @ + (flux_sample(st.ticks + tpc) + 1) * 16]
    ELSE flux_bits([st EXCEPT !.y = @ + 1, !.ticks = (@ + tpc) % 16,
                              !.todo = @ - 1, !.x = @ \div 2,
                              !.cells = @ + tpc,
                              !.sum = @ + (flux_sample(st.ticks + tpc) + 1)
                                          * 16], tpc)

\* OP_index: the timestamp is stored when there is room and it differs.
index_records_never(m, pos) == FALSE
index_records(m, pos) ==
    pos < MAX_CUSTOM_PULSES /\ m.index_pulses[pos] # m.cur_ticks

\* OP_skip: x = (_rbit32(operand) >> 24) & 7, arg the reversed operand.
skip_bits_none(arg) == 0
skip_bits(arg) == arg % 8

\* bc_b[(i/8) & bc_mask]
bc_byte(b, i) == b.buf[((i \div 8) % BC_LEN) + 1]

\* One pass of the outer loop of hfe_rdata_flux on st = [im, c, y, ticks,
\* todo, out, ...] (c is bc_c); rnd is the byte rand() returns.  ok tells
\* that ASSERT(im->cur_bc == im->tracklen_bc) held at every wrap, wdone is
\* the number of samples emitted before the call's first wrap (-1: none).
flux_step(st, b, rnd) ==
    LET m == st.im
        y == st.c % 8
        x == bc_byte(b, st.c) \div Pow2(y)
        op == x \div 16
        arg == rbit8(bc_byte(b, st.c + 8))
        data(m1, c1, y1, x1) ==
            Bind(flux_bits([x |-> x1, y |-> y1, ticks |-> st.ticks,
                            todo |-> st.todo, out |-> FALSE,
                            sum |-> st.sum, cells |-> st.cells],
                           m1.ticks_per_cell), LAMBDA r :
                 [st EXCEPT
                    !.im = [m1 EXCEPT
                              !.cur_bc = @ + 8 - y1,
                              !.cur_ticks = @ + (8 - y1) * m1.ticks_per_cell],
                    !.c = c1 + 8 - y1, !.y = r.y, !.ticks = r.ticks,
                    !.todo = r.todo, !.out = r.out,
                    !.sum = r.sum, !.cells = r.cells])
    IN  IF m.cur_bc >= m.tracklen_bc
        THEN [st EXCEPT
                !.im = [m EXCEPT
                          !.tracklen_ticks = m.cur_ticks,
                          !.cur_bc = 0, !.cur_ticks = 0,
                          !.index_pulses_len = m.hfe.next_index_pulses_pos,
                          !.index_pulses_ver =
                              IF m.index_pulses_len
                                    # m.hfe.next_index_pulses_pos
                              THEN @ + 1 ELSE @,
                          !.hfe.next_index_pulses_pos = 0],
                !.c = (st.c + 2047) - ((st.c + 2047) % 2048),
                !.ok = @ /\ m.cur_bc = m.tracklen_bc,
                !.wdone = IF @ < 0 THEN st.nr - st.todo ELSE @]
        ELSE IF ~(m.hfe.is_v3 /\ y = 0 /\ x % 16 = 15)
        THEN data(m, st.c, y, x)
        ELSE IF op = OP_bitrate
        THEN [st EXCEPT
                !.im = [m EXCEPT
                          !.ticks_per_cell = (sysclk_us(2) * 16 * arg) \div 72,
                          !.write_bc_ticks =
                              ((sysclk_us(2) * 16 * arg) \div 72) \div 16,
                          !.cur_bc = @ + 16],
                !.c = @ + 16, !.y = 8]
        ELSE IF op = OP_skip
        THEN data([m EXCEPT !.cur_bc = @ + 16 + skip_bits(arg)],
                  st.c + 16 + skip_bits(arg), skip_bits(arg),
                  bc_byte(b, st.c + 16 + skip_bits(arg))
                      \div Pow2(skip_bits(arg)))
        ELSE IF op = OP_rand
        THEN data(m, st.c, y, rnd)
        ELSE [st EXCEPT
                !.im = IF op # OP_index THEN [m EXCEPT !.cur_bc = @ + 8]
                       ELSE LET pos == m.hfe.next_index_pulses_pos
                                rec == index_records(m, pos)
                            IN  [m EXCEPT
                                   !.cur_bc = @ + 8,
                                   !.index_pulses =
                                       IF rec
                                       THEN [@ EXCEPT ![pos] = m.cur_ticks]
                                       ELSE @,
                                   !.index_pulses_ver =
                                       IF rec THEN @ + 1 ELSE @,
                                   !.hfe.next_index_pulses_pos = pos + 1],
                !.c = @ + 8, !.y = 8]

\* The outer loop, while ((uint32_t)(bc_p - bc_c) >= 3*8), for at most
\* `fuel' passes (the range of passes is halved until it is short).
RECURSIVE flux_run(_, _, _, _)
flux_run(st, b, rnd, fuel) ==
    IF st.out \/ fuel = 0 \/ (b.prod - st.c < 24 /\ b.prod - st.c >= 0)
    THEN st
    ELSE IF fuel > 8
    THEN Bind(flux_run(st, b, rnd, fuel \div 2), LAMBDA s1 :
              flux_run(s1, b, rnd, fuel - fuel \div 2))
    ELSE Bind(flux_step(st, b, rnd), LAMBDA s1 :
              flux_run(s1, b, rnd, fuel - 1))

\* hfe_rdata_flux(im, tbuf, nr): [im, bc, done, ...], done the samples
\* emitted.
hfe_rdata_flux(m0, b0, nr, rnd) ==
    Bind(flux_run([im |-> m0, c |-> b0.cons, y |-> 8,
                   ticks |-> m0.ticks_since_flux, todo |-> nr,
                   out |-> FALSE, nr |-> nr, sum |-> 0, cells |-> 0,
                   ok |-> TRUE, wdone |-> -1],
                  b0, rnd, 2 * BC_LEN + 2), LAMBDA r :
         [im |-> [r.im EXCEPT
                    !.cur_bc = @ - (8 - r.y),
                    !.cur_ticks = @ - (8 - r.y) * r.im.ticks_per_cell,
                    !.ticks_since_flux = r.ticks],
          bc |-> [b0 EXCEPT !.cons = r.c - (8 - r.y)],
          done |-> nr - r.todo,
          sum |-> r.sum, cells |-> r.cells, ok |-> r.ok,
          wdone |-> r.wdone])

\* Bytes a read of wrbuf[] outside the batch read into it can return.
wrbuf_oob == {0, 79, 207}

\* "Avoid writing in the middle of an opcode": the values trk_pos can have
\* after the adjustment made when a batch is read in, data the batch and
\* off its write_batch.off.  w = wrbuf + side*256 + trk_pos - off - 1.
hfe_entry_adjust(m, data, off) ==
    LET pos == m.hfe.trk_pos
        idx == (m.cur_track % 2) * 256 + pos - off - 1
        at(i) == IF i >= 0 /\ i < Len(data) THEN {data[i + 1]} ELSE wrbuf_oob
    IN  IF ~(m.hfe.is_v3 /\ pos % 256 >= 1) THEN {pos}
        ELSE { pos
               + (IF pos % 256 >= 2 /\ b1 % 16 = 15 /\ b1 \div 16 = OP_skip
                  THEN 1 ELSE 0)
               + (IF b0 % 16 # 15 THEN 0
                  ELSE IF b0 \div 16 = OP_skip THEN 2
                  ELSE IF b0 \div 16 = OP_bitrate THEN 1 ELSE 0) :
               b0 \in at(idx),
               b1 \in IF pos % 256 >= 2 THEN at(idx - 1) ELSE {0} }

\* The encode loop for (i = 0; i < nr; i++), run while i < hi on
\* st = [i, c, idx, data], idx the wrbuf index of w and c the ring index
\* (lo..hi is halved until it is short, st.i >= lo).  An opcode other than
\* rand is stepped over with its operands (skip 3 bytes, bitrate 2, nop and
\* index 1); any other byte is replaced by the next ring byte, bit-reversed.
RECURSIVE hfe_encode(_, _, _, _, _)
hfe_encode(is_v3, w, st, lo, hi) ==
    IF st.i >= hi \/ st.idx >= Len(st.data) THEN st
    ELSE IF hi - lo > 8
    THEN Bind(hfe_encode(is_v3, w, st, lo, (lo + hi) \div 2), LAMBDA s1 :
              hfe_encode(is_v3, w, s1, (lo + hi) \div 2, hi))
    ELSE Bind(st.data[st.idx + 1], LAMBDA b :
         Bind(IF is_v3 /\ b % 16 = 15 /\ b \div 16 # OP_rand
              THEN [st EXCEPT
                      !.i = @ + (IF b \div 16 = OP_skip THEN 3
                                 ELSE IF b \div 16 = OP_bitrate THEN 2
                                 ELSE 1),
                      !.idx = @ + (IF b \div 16 = OP_skip THEN 3
                                   ELSE IF b \div 16 = OP_bitrate THEN 2
                                   ELSE 1)]
              ELSE [st EXCEPT
                      !.data[st.idx + 1] = rbit8(wr_word(w, st.c)),
                      !.i = @ + 1, !.idx = @ + 1, !.c = @ + 1],
              LAMBDA s1 : hfe_encode(is_v3, w, s1, lo, hi)))

\* The for (;;) loop of hfe_write_track: [im, c, data, writeback, ok], ok
\* whether ASSERT(trk_pos - trk_len <= 2) held at every wrap.
RECURSIVE hfe_write_loop(_, _, _, _, _)
hfe_write_loop(m, w, data, c, p) ==
    LET off   == m.hfe.trk_pos
        space == (p - c) % Len(w.buf)
        nr1   == Min(space, 256 - (off % 256))
        \* min_t(UINT, nr, trk_len - off), the difference taken as unsigned
        nr    == IF m.hfe.trk_len - off < 0 THEN nr1
                 ELSE Min(nr1, m.hfe.trk_len - off)
        batch_off == (off - (off % 256)) * 2
        wb    == m.hfe.write_batch
    IN  IF nr = 0
        THEN [im |-> m, c |-> c, data |-> data, writeback |-> FALSE,
              ok |-> TRUE]
        ELSE IF batch_off < wb.off \/ batch_off >= wb.off + wb.len
        THEN [im |-> m, c |-> c, data |-> data, writeback |-> TRUE,
              ok |-> TRUE]
        ELSE Bind(hfe_encode(m.hfe.is_v3, w,
                             [i |-> 0, c |-> c, data |-> data,
                              idx |-> (m.cur_track % 2) * 256 + batch_off
                                      - wb.off + (off % 256)],
                             0, nr), LAMBDA e :
             Bind(hfe_write_loop(
                 [m EXCEPT
                    !.hfe.write_batch.dirty = TRUE,
                    !.hfe.trk_pos = IF off + e.i >= m.hfe.trk_len THEN 0
                                    ELSE off + e.i,
                    !.hfe.write.wrapped = IF off + e.i >= m.hfe.trk_len
                                          THEN TRUE ELSE @],
                 w, e.data, e.c, p), LAMBDA r :
               [r EXCEPT !.ok = @ /\ (off + e.i >= m.hfe.trk_len
                                      => off + e.i - m.hfe.trk_len <= 2)]))

\* hfe_write_track: the set of results [ret, im, wr, file, ev, ok, p] (one
\* for each value the batch-entry adjustment can leave in trk_pos).  wr.wdata
\* is bufs.write_data, the batch being edited; ok is whether the ASSERT of
\* the wrap check held and p the end index of the call.
hfe_write_track(m0, w, q, f) ==
    LET c     == w.cons \div 8
        flush == q.wr_cons # q.wr_bc
        p     == IF flush THEN (q.bc_end + 4) \div 8 ELSE w.prod \div 8
        load  == m0.hfe.write_batch.len = 0
        off   == (m0.hfe.trk_pos - (m0.hfe.trk_pos % 256)) * 2
        len   == Min(8 * 512,
                     ((m0.hfe.trk_len * 2 + 511) \div 512) * 512 - off)
    IN  UNION {
          { Bind(hfe_write_loop(
                   IF load
                   THEN [m0 EXCEPT !.hfe.write_batch.off = off,
                                   !.hfe.write_batch.len = len,
                                   !.hfe.trk_pos = pos]
                   ELSE m0, w, data, c, p), LAMBDA r :
            Bind(r.writeback \/ flush, LAMBDA writeback :
              [ret |-> flush /\ ~r.writeback,
               im |-> IF writeback /\ r.im.hfe.write_batch.dirty
                      THEN [r.im EXCEPT !.hfe.write_batch.len = 0,
                                        !.hfe.write_batch.dirty = FALSE]
                      ELSE r.im,
               wr |-> [w EXCEPT !.cons = r.c * 8, !.wdata = r.data],
               file |-> IF writeback /\ r.im.hfe.write_batch.dirty
                        THEN F_write(f, r.im.hfe.trk_off * 512
                                        + r.im.hfe.write_batch.off, r.data)
                        ELSE f,
               ev |-> <<>>, ok |-> r.ok, p |-> p])) :
            pos \in IF load THEN hfe_entry_adjust(m0, data, off)
                    ELSE {m0.hfe.trk_pos} } :
          data \in {IF load THEN F_read(f, m0.hfe.trk_off * 512 + off, len)
                    ELSE w.wdata} }

(***************************************************************************)
(* Buffers and the file, before any handler has run.                       *)
(***************************************************************************)
NoBuf   == [prod |-> 0, cons |-> 0, buf |-> <<>>]
\* The write descriptor in use, and what the pump did for it: whether it is
\* still capturing, and the frames it captured.
NoQueue == [wr_cons |-> 0, wr_bc |-> 0, start |-> 0, bc_end |-> 0,
            writing |-> FALSE, sent |-> <<>>]
NoFile  == [fill |-> 0, log |-> <<>>]
\* The arena before arena_init has run.
NoHeap  == [p |-> 0, top |-> 0, ok |-> TRUE, out |-> <<>>]

(***************************************************************************)
(* Mount: the openers of the raw-sector image handlers.  A file carries    *)
(* its size next to its contents; a type table is the sequence of its rows *)
(* and its end stands for the terminator row { 0 }.                        *)
(***************************************************************************)

\* The type tables other than img_type, by host profile or image handler.
host_type_default(host) == img_type
host_type(host) ==
    CASE host \in {"akai", "gem"} -> <<
           Type( 5, 2, 1, 116, 1, 3, 1, 0, 0, 80, 300),
           Type(10, 2, 1, 116, 1, 3, 1, 0, 0, 80, 300) >>
      [] host = "casio" -> <<
           Type( 8, 2, 1, 116, 3, 3, 1, 0, 0, 80, 360) >>
      [] host = "dec" -> <<
           Type(10, 1, 1, 30, 1, 2, 1, 0, 0, 80, 300) >>
      [] host = "ensoniq" -> <<
           Type(10, 2, 1, 30, 1, 2, 0, 0, 0, 80, 300),
           Type(20, 2, 1, 40, 1, 2, 0, 0, 0, 80, 300) >>
      [] host = "fluke" -> <<
           Type(16, 2, 1, 57, 2, 1, 0, 0, 0, 80, 300) >>
      [] host = "kaypro" -> <<
           Type(10, 1, 1, 30, 3, 2, 0, 1, 0, 40, 300),
           Type(10, 2, 1, 30, 3, 2, 0, 1, 0, 40, 300),
           Type(10, 2, 1, 30, 3, 2, 0, 1, 0, 80, 300) >>
      [] host = "memotech" -> <<
           Type(16, 2, 1, 57, 3, 1, 1, 0, 0, 40, 300),
           Type(16, 2, 1, 57, 3, 1, 1, 0, 0, 80, 300) >>
      [] host = "msx" -> <<
           Type( 8, 1, 1, 84, 1, 2, 1, 0, 0, 80, 300),
           Type( 9, 1, 1, 84, 1, 2, 1, 0, 0, 80, 300) >>
      [] host = "nascom" -> <<
           Type(16, 1, 1, 57, 3, 1, 1, 0, 8, 80, 300),
           Type(16, 2, 1, 57, 3, 1, 1, 0, 8, 80, 300) >>
      [] host = "pc98" -> <<
           Type( 8, 2, 1, 116, 1, 3, 1, 0, 0, 80, 360),
           Type( 8, 2, 1, 116, 1, 2, 1, 0, 0, 80, 360),
           Type( 9, 2, 1, 116, 1, 2, 1, 0, 0, 80, 360) >>
      [] host = "uknc" -> <<
           Type(10, 2, 0, 38, 1, 2, 1, 0, 0, 80, 300) >>
      [] host = "adfs" -> <<
           Type( 5, 2, 1, 116, 1, 3, 0, 0, 1, 80, 300),
           Type(10, 2, 1, 116, 1, 3, 0, 0, 2, 80, 300),
           Type(16, 2, 1,  57, 1, 1, 0, 0, 0, 80, 300),
           Type(16, 1, 1,  57, 1, 1, 0, 0, 0, 80, 300),
           Type(16, 1, 1,  57, 1, 1, 0, 0, 0, 40, 300) >>
      [] host = "d81" -> <<
           Type(10, 2, 1, 30, 1, 2, 1, 0, 0, 80, 300) >>
      [] host = "mbd" -> <<
           Type(11, 2, 1,  30, 1, 3, 1, 0, 0, 80, 300),
           Type( 5, 2, 1, 116, 3, 1, 1, 0, 0, 80, 300),
           Type(11, 2, 1,  30, 1, 3, 1, 0, 0, 40, 300),
           Type( 5, 2, 1, 116, 3, 1, 1, 0, 0, 40, 300) >>
      [] OTHER -> img_type

im_size(m, f) == IF f.size < m.base_off THEN 0 ELSE f.size - m.base_off

\* min_cyls..max_cyls of a row's cylinder class.
cyl_range_80(type) == 77..85
cyl_range(type) == IF type.cyls = 1 THEN 38..42 ELSE 77..85

\* The walk of _img_open from row i: the first <<row, nr_cyls>> whose image
\* size is size, <<0, 0>> at the terminator.
RECURSIVE type_walk(_, _, _)
type_walk(tab, i, size) ==
    IF i > Len(tab) THEN <<0, 0>>
    ELSE LET cyl_sz == tab[i].nr_secs * (128 * Pow2(tab[i].no))
                       * (tab[i].nr_sides + 1)
             cs == { c \in cyl_range(tab[i]) : c * cyl_sz = size }
         IN  IF cs # {}
             THEN <<i, CHOOSE c \in cs : \A d \in cs : c <= d>>
             ELSE type_walk(tab, i + 1, size)

\* What an opener reports: its return value, whether its assertions held,
\* the image, and the table walks it made (table, payload size, the row and
\* cylinder count adopted, whether mfm_open was called).
Opened(r, walks) ==
    [ok |-> r.ok, asserted |-> TRUE, im |-> r.im, walks |-> walks]

_img_open(m0, tab, f) ==
    Bind(type_walk(tab, 1, im_size(m0, f)), LAMBDA hit :
        IF hit[1] = 0
        THEN Opened([ok |-> FALSE, im |-> m0],
                    << [tab |-> tab, size |-> im_size(m0, f),
                        hit |-> hit, opened |-> FALSE] >>)
        ELSE Opened(img_open_found(m0, tab[hit[1]], hit[2]),
                    << [tab |-> tab, size |-> im_size(m0, f),
                        hit |-> hit, opened |-> TRUE] >>))

\* struct bpb, read from the boot sector.
bpb_read(f) ==
    [sig |-> le16(f, 510), bytes_per_sec |-> le16(f, 11),
     sec_per_track |-> le16(f, 24), num_heads |-> le16(f, 26),
     tot_sec |-> le16(f, 19)]

\* pc_dos_open with a boot sector {sig 0xaa55, bytes_per_sec, sec_per_track,
\* num_heads, tot_sec}.
pc_dos_open(bytes_per_sec, sec_per_track, num_heads, tot_sec) ==
    LET nos == { no \in 0..6 : 128 * Pow2(no) = bytes_per_sec }
        no  == CHOOSE x \in nos : TRUE
        nr_cyls == (tot_sec + sec_per_track * num_heads - 1)
                   \div (sec_per_track * num_heads)
    IN  IF \/ nos = {}
           \/ sec_per_track = 0 \/ sec_per_track > SEC_MAP_SIZE
           \/ num_heads \notin {1, 2}
           \/ nr_cyls = 0
        THEN [ok |-> FALSE, im |-> ZeroImage]
        ELSE mfm_open([ZeroImage EXCEPT
                 !.sec_no = no, !.nr_sectors = sec_per_track,
                 !.nr_sides = num_heads, !.nr_cyls = nr_cyls,
                 !.interleave = 1, !.sec_base = <<1, 1>>, !.skew = 0,
                 !.has_iam = TRUE])

\* ssd_open (nr_sides = 1) / dsd_open (nr_sides = 2) -> dfs_open.
dfs_open(nr_sides) ==
    fm_open([ZeroImage EXCEPT
        !.nr_sides = nr_sides, !.nr_cyls = 80, !.interleave = 1, !.skew = 3,
        !.skew_cyls_only = TRUE, !.sec_no = 1, !.sec_base = <<0, 0>>,
        !.nr_sectors = 10, !.gap_3 = 21])

\* pc_dos_open on a file: bpb.sig != 0xaa55 fails.
bpb_sig_any(bpb) == TRUE
bpb_sig_ok(bpb) == bpb.sig = 43605

pc_dos_probe(f) ==
    Bind(bpb_read(f), LAMBDA bpb :
        IF ~bpb_sig_ok(bpb) THEN [ok |-> FALSE, im |-> ZeroImage]
        ELSE pc_dos_open(bpb.bytes_per_sec, bpb.sec_per_track,
                         bpb.num_heads, bpb.tot_sec))

msx_open(f) ==
    Bind(bpb_read(f), LAMBDA bpb :
        IF /\ im_size(ZeroImage, f) \in {320 * 1024, 360 * 1024}
           /\ bpb.bytes_per_sec = 512
           /\ bpb.num_heads \in {1, 2}
           /\ bpb.tot_sec = im_size(ZeroImage, f) \div bpb.bytes_per_sec
           /\ bpb.sec_per_track \in {8, 9}
        THEN Opened(mfm_open([ZeroImage EXCEPT
                        !.sec_no = 2, !.nr_sectors = bpb.sec_per_track,
                        !.nr_sides = bpb.num_heads,
                        !.nr_cyls = IF bpb.num_heads = 1 THEN 80 ELSE 40,
                        !.interleave = 1, !.sec_base = <<1, 1>>, !.skew = 0,
                        !.has_iam = TRUE]), <<>>)
        ELSE _img_open(ZeroImage, host_type("msx"), f))

\* struct vib of ti99_open: id[3] at offset 13, tracks_per_side at 17,
\* sides at 18.
ti99_open(f) ==
    LET bytes == im_size(ZeroImage, f)
        secs  == bytes \div 256
        fsize == IF secs % 10 = 3 THEN secs - 3 ELSE secs
        have_vib == F_read(f, 13, 3) = <<68, 83, 75>>
        m0 == [ZeroImage EXCEPT
                 !.has_iam = FALSE, !.interleave = 4, !.skew = 3,
                 !.skew_cyls_only = TRUE, !.sec_no = 1,
                 !.sec_base = <<0, 0>>,
                 !.layout = LAYOUT_sequential_reverse_side1]
        fm(cyls, sides) ==
            fm_open([m0 EXCEPT !.nr_cyls = cyls, !.nr_sides = sides,
                               !.nr_sectors = 9, !.gap_3 = 44])
        mfm(cyls, sides, n, il, gap3) ==
            Opened(mfm_open([m0 EXCEPT
                       !.nr_cyls = cyls, !.nr_sides = sides,
                       !.nr_sectors = n, !.interleave = il,
                       !.gap_3 = gap3]), <<>>)
        fail == [ok |-> FALSE, asserted |-> TRUE, im |-> m0]
        n9  == fsize \div (40 * 9)
        n16 == fsize \div (40 * 16)
    IN  Bind(IF bytes % 256 # 0 \/ fsize = 0 THEN fail
             ELSE IF fsize % (40 * 9) = 0
             THEN CASE n9 = 1 -> fm(40, 1)
                    [] n9 = 2 -> IF have_vib /\ byte_at(f, 18) = 1
                                 THEN mfm(40, 1, 18, 5, 24)
                                 ELSE fm(40, 2)
                    [] n9 = 4 -> IF have_vib /\ byte_at(f, 17) = 80
                                 THEN fm(80, 2)
                                 ELSE mfm(40, 2, 18, 5, 24)
                    [] n9 = 8 -> mfm(80, 2, 18, 5, 24)
                    [] n9 = 16 -> mfm(80, 2, 36, 5, 24)
                    [] OTHER -> fail
             ELSE IF fsize % (40 * 16) = 0 /\ n16 <= 2
             THEN mfm(40, n16, 16, 5, 44)
             ELSE fail, LAMBDA r :
            [ok |-> r.ok, asserted |-> r.asserted, im |-> r.im,
             walks |-> <<>>])

\* img_open under host profile ff_cfg.host.
img_open(host, f) ==
    LET fallback(walks) ==
            Bind(_img_open(ZeroImage, img_type, f), LAMBDA r :
                [r EXCEPT !.walks = walks \o @])
    IN  CASE host = "msx" ->
                Bind(msx_open(f), LAMBDA r :
                    IF r.ok THEN r ELSE fallback(r.walks))
          [] host = "pc_dos" ->
                Bind(pc_dos_probe(f), LAMBDA r :
                    IF r.ok THEN Opened(r, <<>>) ELSE fallback(<<>>))
          [] host = "ti99" -> ti99_open(f)
          [] host = "uknc" ->
                _img_open([ZeroImage EXCEPT !.gap_2 = 24, !.gap_4a = 27,
                                            !.post_crc_syncs = 1],
                          host_type("uknc"), f)
          [] OTHER ->
                Bind(_img_open([ZeroImage EXCEPT
                                  !.skew_cyls_only = (host = "nascom")],
                               host_type(host), f), LAMBDA r :
                    IF r.ok THEN r ELSE fallback(r.walks))

\* The openers of the handlers chosen by file name extension.
ext_open(ext, f) ==
    CASE ext = "adfs" ->
            _img_open([ZeroImage EXCEPT !.skew_cyls_only = TRUE],
                      host_type("adfs"), f)
      [] ext = "d81" ->
            _img_open([ZeroImage EXCEPT
                         !.layout = LAYOUT_interleaved_swap_sides],
                      host_type("d81"), f)
      [] ext = "mbd" -> _img_open(ZeroImage, host_type("mbd"), f)
      [] ext = "mgt" -> _img_open(ZeroImage, img_type, f)
      [] ext = "ssd" -> dfs_open(1) @@ [walks |-> <<>>]
      [] OTHER -> dfs_open(2) @@ [walks |-> <<>>]

\* A file of size bytes, zero except for the writes of boot.
OpenFile(size, boot) == [fill |-> 0, log |-> boot, size |-> size]

(***************************************************************************)
(* SpecMap: an image is opened, then the drive seeks from track to track.  *)
(***************************************************************************)
MaxSectors    == 5
MaxInterleave == 3
MaxSkew       == 2
MaxCyl        == 2

\* First sector IDs a JVC header may carry (any byte).
JvcSecIds == {0, 1, 128, 253, 254, 255}

TableGeoms ==
    { img_open_found([ZeroImage EXCEPT !.skew_cyls_only = sco],
                     Type(n, sides, 1, 30, il, 0, base, itn, skew, 40, 300),
                     40).im :
        n \in 1..MaxSectors, sides \in 1..2, il \in 0..MaxInterleave,
        base \in 0..1, itn \in 0..1, skew \in 0..MaxSkew, sco \in BOOLEAN }

JvcGeoms ==
    { jvc_open(spt, sides, 1, id, 35).im :
        spt \in 1..MaxSectors, sides \in 1..2, id \in JvcSecIds }

\* Images of the other two layouts: a D81 image (interleaved, sides swapped)
\* and TI99 images (side 1 stored backwards after side 0): FM two-sided, MFM
\* two-sided and FM one-sided.
LayoutGeoms ==
    { ext_open("d81", OpenFile(819200, <<>>)).im,
      img_open("ti99", OpenFile(184320, <<>>)).im,
      img_open("ti99", OpenFile(737280, <<>>)).im,
      img_open("ti99", OpenFile(92160, <<>>)).im }

MapInit ==
    /\ im \in TableGeoms \cup JvcGeoms \cup LayoutGeoms
    /\ rd = NoBuf /\ bc = NoBuf /\ wr = NoBuf /\ wq = NoQueue /\ heap = NoHeap
    /\ file = NoFile
    /\ h = [op |-> "open", hang |-> FALSE]

\* img_setup_track's seek: if (track != im->cur_track) img_seek_track(...)
MapSeek(cyl, side) ==
    LET track == cyl * 2 + side
        r == img_seek_track(im, track, cyl, side)
    IN  /\ ~h.hang
        /\ track # im.cur_track
        /\ im' = r.im
        /\ h' = [op |-> "seek", hang |-> r.hang]
        /\ UNCHANGED <<rd, bc, wr, wq, file, heap>>

MapNext == \E cyl \in 0..MaxCyl, side \in 0..1 :
              side < im.nr_sides /\ MapSeek(cyl, side)

SpecMap == MapInit /\ [][MapNext]_vars

\* The IDs held by the first nr_sectors slots of sec_map.
MapIds == { im.sec_map[i] : i \in 0..(im.nr_sectors - 1) }
Injective(f) == \A i, j \in DOMAIN f : f[i] = f[j] => i = j

\* C2 (as stated): after img_seek_track, sec_map[0..nr_sectors) holds every
\* ID of sec_base[side] .. sec_base[side]+nr_sectors-1 exactly once and the
\* slot search has terminated.
C2_AsStated ==
    h.op = "seek" =>
        /\ ~h.hang
        /\ MapIds = sec_base(im) .. (sec_base(im) + im.nr_sectors - 1)
        /\ Injective(im.sec_map)

\* C2 (amended): the IDs are bytes: sec_map[0..nr_sectors) holds every ID
\* (sec_base[side] + i) mod 256, i in 0..nr_sectors-1, exactly once, and the
\* slot search has terminated.
C2_SecMapPermutation ==
    h.op = "seek" =>
        /\ ~h.hang
        /\ MapIds = { U8(sec_base(im) + i) : i \in 0..(im.nr_sectors - 1) }
        /\ Injective(im.sec_map)

\* C2 witness: an interleaved map has been built whose IDs wrap past 255, so
\* an ID equal to the 0xff free-slot marker was placed in it.
C2_Witness ==
    /\ h.op = "seek" /\ im.nr_sectors >= 4 /\ im.interleave >= 2
    /\ 255 \in MapIds /\ im.sec_map[1] # U8(sec_base(im) + 1)


\* The track number T of the claimed offset, from the cylinder and head of
\* the track last sought.
C20_T ==
    LET cyl  == im.cur_track \div 2
        side == im.cur_track % 2
        trk  == cyl * im.nr_sides + side
    IN  CASE im.layout = LAYOUT_interleaved -> trk
          [] im.layout = LAYOUT_interleaved_swap_sides ->
                Xor8(trk, im.nr_sides - 1)
          [] im.layout = LAYOUT_sequential_reverse_side1 ->
                IF side = 0 THEN cyl ELSE 2 * im.nr_cyls - cyl - 1

\* C20: after img_seek_track, trk_off = base_off + T * (nr_sectors * sec_sz)
\* with T = cyl*nr_sides + side for the interleaved layout, that number XOR
\* (nr_sides - 1) for interleaved-swap-sides, and for sequential-reverse-side1
\* T = cyl on head 0 and 2*nr_cyls - cyl - 1 on head 1.
C20_TrackOffset ==
    h.op = "seek" =>
        im.trk_off = im.base_off + C20_T * (im.nr_sectors * sec_sz(im))

\* A TI99 image sought to (cyl 0, side 1): (2*nr_cyls - 1) * trk_len.
C20_Witness ==
    /\ h.op = "seek"
    /\ im.layout = LAYOUT_sequential_reverse_side1
    /\ im.nr_sides = 2 /\ im.cur_track = 1
    /\ im.trk_off = (2 * im.nr_cyls - 1) * (im.nr_sectors * sec_sz(im))

(***************************************************************************)
(* SpecRead: an image is opened, a track is set up at a start position and *)
(* read_track is called again and again while the flux pump consumes.      *)
(***************************************************************************)

MaxRevs == 2

\* Images of the read check: a short SD track with a long GAP4, a track
\* whose GAP4A is trimmed away (idx_sz = 0), a long track with inter-track
\* numbering, 2048-byte sectors, and an FM track.
ReadGeoms ==
    { img_open_found(ZeroImage, Type(6, 1, 1, 30, 1, 0, 1, 0, 0, 40, 300), 40).im,
      img_open_found(ZeroImage, Type(5, 1, 0, 40, 1, 2, 1, 0, 0, 40, 300), 40).im,
      img_open_found(ZeroImage, Type(5, 2, 0, 60, 2, 2, 0, 1, 1, 40, 300), 40).im,
      pc_dos_open(2048, 1, 1, 40).im,
      dfs_open(1).im }

FileFills  == {300}
\* <<track, start byte>> pairs a track is set up with.
ReadStarts == {<<0, 0>>, <<3, 1500>>}
\* Bitcells the flux pump leaves in the ring when it stops consuming.
ConsumeLeft == {0, 5}

NoPub == [kind |-> "none", slot |-> -1, chunk |-> 0, more |-> FALSE, len |-> 0,
          id |-> -1]

\* An HFE (v1) file: the header block, the track lookup table in block 1
\* (cylinder 0: 4096 bytes from block 2, whole 256-byte blocks per side;
\* cylinder 1: 6400 bytes from block 10, the last block half used), and
\* track data.
HfeFile(fill) ==
    [fill |-> fill,
     log |-> << [off |-> 0,
                 data |-> SIG_PICFE \o <<0, 2, 2, 0, 250, 0, 0, 0, 0, 1,
                                          1, 0, 1, 255>>],
                [off |-> 512, data |-> <<2, 0, 0, 16, 10, 0, 0, 25>>] >>]

ReadInit ==
    /\ rd = NoBuf
    /\ wr = NoBuf /\ wq = NoQueue /\ heap = NoHeap
    /\ \E fill \in FileFills :
          \/ /\ im \in ReadGeoms
             /\ file = [fill |-> fill, log |-> <<>>]
             /\ bc = [prod |-> 0, cons |-> 0, buf |-> Rep(0, BC_LEN \div 2)]
          \/ /\ hfe_open(HfeFile(fill)).ok
             /\ im = hfe_open(HfeFile(fill)).im
             /\ file = HfeFile(fill)
             /\ bc = [prod |-> 0, cons |-> 0, buf |-> Rep(0, BC_LEN)]
    /\ h = [op |-> "open", hang |-> FALSE, ret |-> FALSE, words |-> <<>>,
            pub |-> NoPub, ppub |-> NoPub, plast |-> -1, last |-> -1, cyc |-> -1,
            total |-> -1, revs |-> 0,
            before |-> [prod |-> 0, decode_pos |-> 0, decode_data_pos |-> 0,
                        crc |-> 0]]

\* What one call of read_track did, as seen from outside: the phase it
\* published (pub) after the one before (ppub), the last word published
\* before the call (plast), the bitcells published since the index (cyc).
read_hist(hp, op, m0, b0prod, res) ==
    LET kind  == phase_kind(m0)
        this  == [kind |-> kind, slot |-> phase_slot(m0),
                  chunk |-> m0.decode_data_pos,
                  more |-> res.im.decode_pos = m0.decode_pos,
                  len |-> Len(res.words),
                  id |-> IF kind # "IDAM" \/ ~res.ret THEN -1
                         ELSE mfmtobin(res.words[
                                IF m0.sync = SYNC_fm THEN FM_GAP_SYNC + 4
                                ELSE idam_gap_sync(m0) + 7])]
        bits  == res.bc.prod - b0prod
        first == m0.decode_pos = 0 \/ (m0.idx_sz = 0 /\ m0.decode_pos = 1
                                         /\ m0.decode_data_pos = 0)
        final == res.ret /\ kind = "GAP4" /\ ~this.more
        cyc0  == IF op = "setup" THEN (IF first THEN 0 ELSE -1) ELSE hp.cyc
        cyc1  == IF res.ret /\ cyc0 >= 0 THEN cyc0 + bits ELSE cyc0
    IN  [op |-> op, hang |-> FALSE, ret |-> res.ret, words |-> res.words,
         pub  |-> IF res.ret THEN this ELSE IF op = "setup" THEN NoPub ELSE hp.pub,
         ppub |-> IF op = "setup" THEN NoPub
                  ELSE IF res.ret THEN hp.pub ELSE hp.ppub,
         plast |-> IF op = "setup" THEN -1 ELSE hp.last,
         last |-> IF res.ret /\ Len(res.words) > 0
                  THEN be16toh(res.words[Len(res.words)])
                  ELSE IF op = "setup" THEN -1 ELSE hp.last,
         cyc   |-> IF final THEN 0 ELSE cyc1,
         total |-> IF final THEN cyc1 ELSE -1,
         revs  |-> (IF op = "setup" THEN 0 ELSE hp.revs)
                   + (IF final THEN 1 ELSE 0),
         before |-> [prod |-> b0prod, decode_pos |-> m0.decode_pos,
                     decode_data_pos |-> m0.decode_data_pos, crc |-> m0.crc]]

\* The same for an HFE call: only the call's result and the revolutions
\* read (trk_pos back at 0) are recorded.
hfe_hist(hp, op, m0, b0prod, res) ==
    [hp EXCEPT !.op = op, !.ret = res.ret, !.words = <<>>,
               !.revs = (IF op = "setup" THEN 0 ELSE @)
                        + (IF res.im.hfe.trk_pos = 0 /\ m0.hfe.trk_pos # 0
                           THEN 1 ELSE 0),
               !.before = [@ EXCEPT !.prod = b0prod]]

ReadSetup(track, start) ==
    /\ h.op = "open" \/ (h.op = "write" /\ h.ret)
    /\ IF im.handler = "hfe"
       THEN \E r \in {hfe_setup_track(im, rd, bc, file, track,
                                      start * im.ticks_per_cell, wq.start)} :
                /\ im' = r.im /\ rd' = r.rd /\ bc' = r.bc
                /\ h' = hfe_hist(h, "setup", im, 0, r)
       ELSE /\ start * 16 < im.tracklen_bc
            /\ \E r \in {img_setup_track(im, rd, bc, file, track,
                                          start * im.ticks_per_cell)},
                  m0 \in {calc_start_pos([im EXCEPT
                                            !.cur_bc = start * 16]).im} :
                /\ im' = r.im /\ rd' = r.rd /\ bc' = r.bc
                /\ h' = read_hist(h, "setup", m0, 0, r)
    /\ UNCHANGED <<wr, wq, file, heap>>

ReadTrack ==
    /\ h.op \in {"setup", "read", "consume"}
    /\ h.revs < MaxRevs
    /\ IF im.handler = "hfe"
       THEN \E r \in {hfe_read_track(im, rd, bc, file)} :
                /\ im' = r.im /\ rd' = r.rd /\ bc' = r.bc
                /\ h' = hfe_hist(h, "read", im, bc.prod, r)
       ELSE \E r \in {img_read_track(im, rd, bc, file)} :
                /\ im' = r.im /\ rd' = r.rd /\ bc' = r.bc
                /\ h' = read_hist(h, "read", im, bc.prod, r)
    /\ UNCHANGED <<wr, wq, file, heap>>

\* The flux pump consumes bitcells, never past prod; it may stop in the
\* middle of a word.
Consume(left) ==
    /\ h.op \in {"setup", "read", "consume"}
    /\ bc.cons < bc.prod - left
    /\ bc' = [bc EXCEPT !.cons = bc.prod - left]
    /\ h' = [h EXCEPT !.op = "consume", !.ret = FALSE, !.words = <<>>]
    /\ UNCHANGED <<im, rd, wr, wq, file, heap>>

ReadNext ==
    \/ \E ts \in ReadStarts : ReadSetup(ts[1], ts[2])
    \/ ReadTrack
    \/ \E left \in ConsumeLeft : Consume(left)

SpecRead == ReadInit /\ [][ReadNext]_vars


\* The size open recorded for a phase, and the part of it chunk c holds.
phase_size(m, kind) ==
    CASE kind = "IDX"  -> m.idx_sz
      [] kind = "IDAM" -> m.idam_sz
      [] kind = "DAM"  -> m.dam_sz_pre
      [] kind = "DATA" -> sec_sz(m)
      [] kind = "POST" -> m.dam_sz_post
      [] kind = "GAP4" -> m.gap_4
      [] OTHER -> 0

chunk_size(m, p) == Min(1024, phase_size(m, p.kind) - 1024 * p.chunk)

\* b is the phase (or chunk) that follows a in the cyclic order of a track.
Follows(m, a, b) ==
    IF a.more
    THEN /\ a.kind \in {"DATA", "GAP4"} /\ a.len = 1024
         /\ b.kind = a.kind /\ b.slot = a.slot /\ b.chunk = a.chunk + 1
    ELSE /\ b.chunk = 0
         /\ CASE a.kind = "IDX"  -> b.kind = "IDAM" /\ b.slot = 0
              [] a.kind = "IDAM" -> b.kind = "DAM" /\ b.slot = a.slot
              [] a.kind = "DAM"  -> b.kind = "DATA" /\ b.slot = a.slot
              [] a.kind = "DATA" -> b.kind = "POST" /\ b.slot = a.slot
              [] a.kind = "POST" ->
                    IF a.slot + 1 < m.nr_sectors
                    THEN b.kind = "IDAM" /\ b.slot = a.slot + 1
                    ELSE b.kind = "GAP4"
              [] a.kind = "GAP4" ->
                    IF m.idx_sz # 0 THEN b.kind = "IDX"
                    ELSE b.kind = "IDAM" /\ b.slot = 0
              [] OTHER -> FALSE

\* C3: in IMG mode (MFM and FM) two phases published one after the other by
\* successful read_track calls are neighbours in the cyclic order
\* GAP4A(+IAM), then IDAM(k), DAM(k), DATA(k), DAM-post(k) for each
\* rotational slot k (the IDAM carrying sec_map[k]), then GAP4; a phase
\* repeats only as the next 1 KiB chunk of DATA or GAP4; the index phase is
\* published exactly when idx_sz is not 0.
C3_PhaseOrder ==
    (im.handler = "img" /\ h.op \in {"setup", "read", "consume"}) =>
        /\ (h.ppub.kind # "none" /\ h.pub.kind # "none")
              => Follows(im, h.ppub, h.pub)
        /\ h.pub.kind = "IDAM" => h.pub.id = im.sec_map[h.pub.slot]
        /\ h.pub.kind = "IDX" => im.idx_sz # 0

\* C3 witness: on a track without index phase (idx_sz = 0) the first IDAM
\* was published right after the last chunk of GAP4.
C3_Witness ==
    /\ h.op = "read" /\ h.ret /\ im.idx_sz = 0
    /\ h.ppub.kind = "GAP4" /\ h.pub.kind = "IDAM" /\ h.pub.slot = 0

\* C4: the bitcells published over one full cycle of decode_pos equal
\* tracklen_bc, and every successful call publishes exactly the recorded
\* size of its phase (idx_sz, idam_sz, dam_sz_pre, sec_sz, dam_sz_post,
\* gap_4), 1 KiB at a time for the chunked ones.
C4_TrackLength ==
    (im.handler = "img" /\ h.op \in {"setup", "read"}) =>
        /\ h.total >= 0 => h.total = im.tracklen_bc
        /\ h.ret => /\ h.pub.len = chunk_size(im, h.pub)
                    /\ h.pub.more = (phase_size(im, h.pub.kind)
                                      - 1024 * h.pub.chunk > 1024)

\* C4 witness: a full cycle of a long track (tracklen_bc extended past the
\* standard length) has just been completed.
C4_Witness ==
    /\ h.op = "read" /\ h.total >= 0
    /\ im.tracklen_bc > (im.data_rate * 200 * 300) \div im.rpm + 32

\* C9: prod - cons of read_bc never exceeds the ring capacity (and cons
\* never passes prod), whatever the consumer does.
C9_RingBound ==
    h.op # "open" =>
        /\ bc.cons <= bc.prod
        /\ bc.prod - bc.cons <= BC_LEN * 8

\* C9 witness: the IMG engine has filled the ring to its capacity.
C9_Witness ==
    /\ im.handler = "img"
    /\ h.op = "read" /\ h.ret /\ bc.prod - bc.cons = BC_LEN * 8

\* The same in HFE mode: a call has published 256-byte blocks up to the
\* capacity of the ring, and the call after it has published nothing.
C9_HfeRingFull ==
    /\ im.handler = "hfe"
    /\ h.op = "read" /\ ~h.ret /\ bc.prod - bc.cons = BC_LEN * 8

\* C10: a read_track call that returns FALSE leaves read_bc.prod,
\* decode_pos, decode_data_pos and the running CRC as they were; one that
\* returns TRUE has advanced prod by exactly one whole phase, or by exactly
\* one chunk of at most 1024 bytes of DATA or GAP4.
C10_WholePhaseOrNothing ==
    (im.handler = "img" /\ h.op = "read") =>
        IF h.ret
        THEN /\ bc.prod = h.before.prod + 16 * Len(h.words)
             /\ Len(h.words) <= 1024
             /\ Len(h.words) = chunk_size(im, h.pub)
             /\ (chunk_size(im, h.pub) < phase_size(im, h.pub.kind))
                   => h.pub.kind \in {"DATA", "GAP4"}
        ELSE /\ bc.prod = h.before.prod
             /\ im.decode_pos = h.before.decode_pos
             /\ im.decode_data_pos = h.before.decode_data_pos
             /\ im.crc = h.before.crc

\* C10 witness: a call has returned FALSE in the middle of a chunked DATA
\* phase, after the first chunk and before the second.
C10_Witness ==
    /\ h.op = "read" /\ ~h.ret
    /\ phase_kind(im) = "DATA" /\ im.decode_data_pos = 1


(***************************************************************************)
(* The MFM rule on bitcells: no two adjacent 1s, no run of more than three *)
(* 0s.  cells[b] describes the 8 bitcells of the byte b.                   *)
(***************************************************************************)
cells ==
    [b \in 0..255 |->
        [ok |-> /\ \A i \in 0..6 : ~(Bit(b, i) = 1 /\ Bit(b, i + 1) = 1)
                /\ \A i \in 0..4 : \E j \in i..(i + 3) : Bit(b, j) = 1,
         lz |-> IF b = 0 THEN 8
                ELSE CHOOSE n \in 0..7 :
                        /\ Bit(b, 7 - n) = 1
                        /\ \A k \in 0..(n - 1) : Bit(b, 7 - k) = 0,
         tz |-> IF b = 0 THEN 8
                ELSE CHOOSE n \in 0..7 :
                        /\ Bit(b, n) = 1
                        /\ \A k \in 0..(n - 1) : Bit(b, k) = 0]]

\* The byte a followed by the byte b keeps the rule where they meet.
cells_join(a, b) ==
    /\ ~(a % 2 = 1 /\ b >= 128)
    /\ cells[a].tz + cells[b].lz <= 3

\* A word keeps the rule inside; the sync words 0x4489 and 0x5224 are exempt.
word_ok(w) ==
    \/ w \in {17545, 21028}
    \/ /\ cells[w \div 256].ok /\ cells[w % 256].ok
       /\ cells_join(w \div 256, w % 256)

\* The words ws (as stored in the ring) published after the word prev
\* (-1: nothing published before) keep the rule.
stream_ok(prev, ws) ==
    \A i \in 1..Len(ws) :
        LET w == be16toh(ws[i])
            p == IF i = 1 THEN prev ELSE be16toh(ws[i - 1])
        IN  /\ word_ok(w)
            /\ p >= 0 => cells_join(p % 256, w \div 256)

\* C5: the MFM bitstream published to read_bc over successive
\* mfm_read_track calls has no two adjacent 1 bits and no run of more than
\* three 0 bits (sync words 0x4489 and 0x5224 apart), also where the words
\* of one call meet the last word of the call before.
C5_MfmRule ==
    (h.op \in {"setup", "read"} /\ h.ret /\ im.sync = SYNC_mfm)
        => stream_ok(h.plast, h.words)

\* The same rule inside every single call: the words of one call, taken
\* without the word published before them.
C5_MfmRuleWithinCall ==
    (h.op \in {"setup", "read"} /\ h.ret /\ im.sync = SYNC_mfm)
        => stream_ok(-1, h.words)


(***************************************************************************)
(* SpecWrite: a track is set up for writing, the write pump captures the   *)
(* host's frames into write_bc and closes the write, and the engine        *)
(* decodes what was captured with write_track.                             *)
(***************************************************************************)
MaxFrames == 2
MaxWrites == 1

\* bufs.write_bc.len / 2: the words the write ring holds (a power of two).
WR_WORDS == 512

\* Images of the write check: three 128-byte MFM sectors, a JVC image with
\* a header whose sector IDs wrap (254, 255, 0), and an FM track.
WriteGeoms ==
    { img_open_found(ZeroImage, Type(3, 1, 1, 30, 1, 0, 1, 0, 0, 40, 300), 40).im,
      jvc_open(3, 1, 0, 254, 35).im,
      dfs_open(1).im }

\* <<track, start byte>> pairs of a write: at the index, inside the second
\* sector, past the last sector.
WriteStarts == {<<0, 0>>, <<0, 400>>, <<3, 3000>>}
\* Bitcells of the last captured word that lie past the end of the write.
WriteCuts == {0, 7, 20}

\* A frame the host writes: an address mark behind `syncs' sync words, for
\* an IDAM the sector ID, for a DAM the payload (seed), a good or a bad CRC.
Frame(mark, syncs, id, seed, good) ==
    [mark |-> mark, syncs |-> syncs, id |-> id, seed |-> seed, good |-> good]

pay_bytes(m, seed) == [i \in 1..sec_sz(m) |-> U8(seed + 13 * i)]

Frames(m) ==
    { Frame(254, 2, m.sec_map[0], 0, TRUE),
      Frame(254, 1, U8(sec_base(m) + m.nr_sectors - 1), 0, TRUE),
      Frame(254, 2, U8(sec_base(m) + m.nr_sectors), 0, TRUE),
      Frame(254, 2, m.sec_map[m.nr_sectors - 1], 0, FALSE),
      Frame(254, 3, m.sec_map[0], 0, TRUE),
      Frame(251, 2, 0, 1, TRUE),
      Frame(251, 1, 0, 2, TRUE),
      Frame(251, 3, 0, 3, TRUE),
      Frame(251, 2, 0, 4, FALSE) }

\* The words the pump stores for a frame: a gap byte, the sync words, the
\* mark, the body and its CRC.  For HFE, fr.len bytes of bitcells: a
\* pattern of bytes 0x10..0x16, or the byte fr.mark over and over.
frame_words(m, fr) ==
    IF m.handler = "hfe"
    THEN [i \in 1..fr.len |-> IF fr.mark = 0 THEN 16 + (i % 7) ELSE fr.mark]
    ELSE
    LET body == IF fr.mark = 254
                THEN <<U8(m.cur_track \div 2), m.cur_track % 2, fr.id, m.sec_no>>
                ELSE pay_bytes(m, fr.seed)
        hdr  == IF m.sync = SYNC_fm THEN <<fr.mark>>
                ELSE <<161, 161, 161, fr.mark>>
    IN  Bind(crc16_ccitt(hdr \o body, 65535), LAMBDA crc0 :
        Bind(IF fr.good THEN crc0 ELSE U16(crc0 + 1), LAMBDA crc :
        IF m.sync = SYNC_fm
        THEN Rep(fm_word(0), fr.syncs)
             \o <<htobe16(fm_sync(fr.mark, FM_SYNC_CLK))>>
             \o fm_bytes(body \o <<crc \div 256, U8(crc)>>)
        ELSE mfm_emit(<<mfmtab[0]>> \o Rep(17545, fr.syncs)
                      \o <<mfmtab[fr.mark]>>
                      \o mfm_bytes(body \o <<crc \div 256, U8(crc)>>))))

WriteInit ==
    /\ im \in WriteGeoms
    /\ rd = NoBuf /\ bc = NoBuf
    /\ wr = [prod |-> 0, cons |-> 0, buf |-> Rep(0, WR_WORDS)]
    /\ wq = NoQueue /\ heap = NoHeap
    /\ \E fill \in FileFills : file = [fill |-> fill, log |-> <<>>]
    /\ h = [op |-> "open", ret |-> FALSE, ev |-> <<>>, nlog |-> 0]

\* The host asserts write gate `start' bytes past the index: the track is
\* set up for writing (start_pos = NULL) and the write ring starts empty.
WriteStart(track, start) ==
    /\ h.op \in {"open", "write"}
    /\ ~wq.writing /\ wq.wr_cons = wq.wr_bc /\ wq.wr_bc < MaxWrites
    /\ \E ticks \in {IF im.handler = "hfe"
                      THEN (start * im.ticks_per_cell) \div 2
                      ELSE start * im.ticks_per_cell} :
          /\ (ticks * 16) \div im.ticks_per_cell < im.tracklen_bc
          /\ \E r \in {IF im.handler = "hfe"
                      THEN hfe_setup_track(im, rd, bc, file, track, -1, ticks)
                      ELSE img_setup_track(im, rd, bc, file, track, -1)} :
                /\ ~r.hang
                /\ im' = r.im /\ rd' = r.rd /\ bc' = r.bc
          /\ wq' = [wq EXCEPT !.start = ticks, !.writing = TRUE,
                              !.sent = <<>>]
    /\ wr' = [wr EXCEPT !.prod = 0, !.cons = 0, !.buf = Rep(0, Len(@))]
    /\ h' = [op |-> "wstart", ret |-> FALSE, ev |-> <<>>,
             nlog |-> Len(file.log)]
    /\ UNCHANGED <<file, heap>>

\* The pump captures one frame, never overrunning the engine's cons; the
\* ring holds 16-bit words for IMG and bytes for HFE.
Pump(fr) ==
    /\ wq.writing /\ Len(wq.sent) < MaxFrames
    /\ \E ws \in {frame_words(im, fr)},
          bits \in {IF im.handler = "hfe" THEN 8 ELSE 16} :
          /\ wr.prod - wr.cons + bits * Len(ws) <= bits * Len(wr.buf)
          /\ wr' = [wr EXCEPT
                      !.buf = ring_put(@, Len(@), wr.prod \div bits, ws),
                      !.prod = @ + bits * Len(ws)]
    /\ wq' = [wq EXCEPT !.sent = Append(@, fr)]
    /\ h' = [op |-> "pump", ret |-> FALSE, ev |-> <<>>, nlog |-> Len(file.log)]
    /\ UNCHANGED <<im, rd, bc, file, heap>>

\* Write gate is released: bc_end is published, then wr_bc advances.  The
\* bitcells past the end are ones the engine has not consumed.
PumpEnd(cut) ==
    /\ wq.writing /\ cut <= wr.prod
    /\ wr.cons <= wr.prod - cut
    /\ wq' = [wq EXCEPT !.bc_end = wr.prod - cut, !.wr_bc = @ + 1,
                        !.writing = FALSE]
    /\ h' = [op |-> "wend", ret |-> FALSE, ev |-> <<>>, nlog |-> Len(file.log)]
    /\ UNCHANGED <<im, rd, bc, wr, file, heap>>

\* What a call of write_track that gave r leaves for the properties to
\* look at: p is the end index of the call.
write_h(r) ==
    [op |-> "write", ret |-> r.ret, ev |-> r.ev,
     nlog |-> Len(file.log),
     ws0 |-> IF im.handler = "hfe" THEN 0 ELSE r.ws0,
     smi |-> IF im.handler = "hfe" THEN {} ELSE r.smi,
     ok |-> IF im.handler = "hfe" THEN r.ok ELSE TRUE,
     p |-> r.p]

\* One call of write_track; the caller advances wr_cons when it returns TRUE.
WriteTrack ==
    /\ wq.writing \/ wq.wr_cons # wq.wr_bc
    /\ \E r \in IF im.handler = "hfe"
               THEN hfe_write_track(im, wr, wq, file)
               ELSE img_write_track(im, wr, wq, file) :
          /\ im' = r.im /\ wr' = r.wr /\ file' = r.file
          /\ wq' = IF r.ret THEN [wq EXCEPT !.wr_cons = @ + 1] ELSE wq
          /\ h' = write_h(r)
    /\ UNCHANGED <<rd, bc, heap>>

WriteNext ==
    \/ \E ts \in WriteStarts : WriteStart(ts[1], ts[2])
    \/ \E fr \in (IF wq.writing THEN Frames(im) ELSE {}) : Pump(fr)
    \/ \E cut \in WriteCuts : PumpEnd(cut)
    \/ WriteTrack

SpecWrite == WriteInit /\ [][WriteNext]_vars

\* The DAM events of the last write_track call whose frame, read back from
\* the ring, has a good CRC, and that found the sector known.
dam_good(e) ==
    /\ e.mark = 251 /\ e.ws >= 0
    /\ crc16_ccitt((IF im.sync = SYNC_fm THEN <<251>>
                    ELSE <<161, 161, 161, 251>>)
                   \o wr_bytes(wr, e.c, sec_sz(im) + 2), 65535) = 0

\* C6: a sector is written iff a DAM is decoded with CRC 0 while
\* write_sector >= 0: each such DAM of a write_track call adds exactly one
\* write of its sec_sz payload bytes at trk_off + write_sector * sec_sz, in
\* order, and nothing else changes the file.
C6_DamCommit ==
    /\ h.op # "write" => Len(file.log) = h.nlog
    /\ h.op = "write" =>
         LET dams == SelectSeq(h.ev, dam_good)
         IN  /\ Len(file.log) = h.nlog + Len(dams)
             /\ \A k \in 1..Len(dams) :
                  file.log[h.nlog + k] =
                      [off |-> im.trk_off + dams[k].ws * sec_sz(im),
                       data |-> wr_bytes(wr, dams[k].c, sec_sz(im))]

\* A call that decoded two DAMs and wrote out only one of them.
C6_Witness ==
    /\ h.op = "write" /\ Len(file.log) = h.nlog + 1
    /\ Cardinality({k \in 1..Len(h.ev) : h.ev[k].mark = 251}) = 2

\* C7: every file write starts at or after base_off and lies inside the
\* current track's extent [trk_off, trk_off + nr_sectors * sec_sz).
C7_WritesInsideTrack ==
    \A k \in 1..Len(file.log) :
        /\ file.log[k].off >= im.base_off
        /\ file.log[k].off >= im.trk_off
        /\ file.log[k].off + Len(file.log[k].data)
              <= im.trk_off + im.nr_sectors * sec_sz(im)

\* The ring word index one past frame j of the write (frames are captured
\* back to back from word 0).
RECURSIVE frame_end(_)
frame_end(j) ==
    IF j = 0 THEN 0
    ELSE frame_end(j - 1) + Len(frame_words(im, wq.sent[j]))

\* Frame j is an IDAM with a good CRC and an ID of the track, behind one or
\* two sync words.
idam_locks(j) ==
    /\ wq.sent[j].mark = 254 /\ wq.sent[j].good
    /\ wq.sent[j].syncs \in {1, 2}
    /\ U8(wq.sent[j].id - sec_base(im)) < im.nr_sectors

\* Frame j is a DAM with a good CRC behind `syncs' sync words, wholly inside
\* the captured window, and follows an IDAM that locked the sector.
dam_whole(j, syncs) ==
    /\ j >= 2 /\ idam_locks(j - 1)
    /\ wq.sent[j].mark = 251 /\ wq.sent[j].good
    /\ wq.sent[j].syncs \in syncs
    /\ frame_end(j) * 16 <= wq.bc_end

\* The payload of DAM j is in the file at the sector of the IDAM before it.
dam_in_file(j) ==
    \E k \in 1..Len(file.log) :
        file.log[k] =
            [off |-> im.trk_off
                     + I8(wq.sent[j - 1].id - sec_base(im)) * sec_sz(im),
             data |-> pay_bytes(im, wq.sent[j].seed)]

\* C11: when write_track returns TRUE for a write, every DAM with a good
\* CRC and a locked sector that lies wholly inside the captured window has
\* been written to the file, behind one sync word or two, also when it ends
\* exactly at the end of the window.
C11_DamCaptured ==
    (h.op = "write" /\ h.ret) =>
        \A j \in 1..Len(wq.sent) : dam_whole(j, {1, 2}) => dam_in_file(j)

\* The same for DAMs behind two sync words, and behind one in FM.
C11_DamCapturedTwoSyncs ==
    (h.op = "write" /\ h.ret) =>
        \A j \in 1..Len(wq.sent) :
            dam_whole(j, IF im.sync = SYNC_fm THEN {1, 2} ELSE {2})
                => dam_in_file(j)

\* A write whose last DAM ends exactly at the end of the window and was
\* written out.
C11_Witness ==
    /\ h.op = "write" /\ h.ret /\ Len(wq.sent) = 2
    /\ dam_whole(2, {1, 2}) /\ frame_end(2) * 16 = wq.bc_end
    /\ dam_in_file(2)

\* write_sector and the number of file writes before event k of the last
\* write_track call.
ws_before(k)   == IF k = 1 THEN h.ws0 ELSE h.ev[k - 1].ws
nlog_before(k) == IF k = 1 THEN h.nlog ELSE h.ev[k - 1].nlog

\* The sector ID of IDAM event e, read back from the ring.
idam_id(e) == wr_bytes(wr, e.c, 6)[3]

\* C12 with the ID range read on the integers: an IDAM with a good CRC
\* leaves write_sector = id - sec_base when sec_base <= id < sec_base +
\* nr_sectors and -2 otherwise.
C12_AsStated ==
    h.op = "write" =>
      \A k \in 1..Len(h.ev) :
        (h.ev[k].mark = 254 /\ h.ev[k].crc = 0) =>
          h.ev[k].ws = (IF /\ idam_id(h.ev[k]) >= sec_base(im)
                           /\ idam_id(h.ev[k]) < sec_base(im) + im.nr_sectors
                        THEN idam_id(h.ev[k]) - sec_base(im)
                        ELSE -2)

\* C12: an IDAM with a good CRC leaves write_sector = (id - sec_base) mod
\* 256 when that is below nr_sectors and -2 otherwise; write_sector changes
\* at no other event, and while it is -2 no DAM is written to the file.
C12_IdamLock ==
    h.op = "write" =>
      /\ \A k \in 1..Len(h.ev) :
           /\ (h.ev[k].mark = 254 /\ h.ev[k].crc = 0) =>
                 h.ev[k].ws = (IF U8(idam_id(h.ev[k]) - sec_base(im))
                                    < im.nr_sectors
                               THEN U8(idam_id(h.ev[k]) - sec_base(im))
                               ELSE -2)
           /\ ~(h.ev[k].mark = 254 /\ h.ev[k].crc = 0) =>
                 h.ev[k].ws = ws_before(k)
           /\ (h.ev[k].mark = 251 /\ ws_before(k) = -2) =>
                 h.ev[k].nlog = nlog_before(k)
      /\ im.write_sector = ws_before(Len(h.ev) + 1)
      /\ Len(file.log) = nlog_before(Len(h.ev) + 1)

\* A call that decoded an IDAM with an ID outside the track and then a DAM
\* with a good CRC, which it did not write.
C12_Witness ==
    /\ h.op = "write" /\ Len(h.ev) = 2
    /\ h.ev[1].mark = 254 /\ h.ev[1].crc = 0 /\ h.ev[1].ws = -2
    /\ h.ev[2].mark = 251 /\ h.ev[2].crc = 0
    /\ Len(file.log) = h.nlog

\* C13: a DAM that follows an IDAM whose CRC failed is not written to the
\* file.
C13_BadIdamSkipsDam ==
    h.op = "write" =>
      \A k \in 2..Len(h.ev) :
        (h.ev[k].mark = 251 /\ h.ev[k - 1].mark = 254 /\ h.ev[k - 1].crc # 0)
            => h.ev[k].nlog = nlog_before(k)

\* The same when no sector was known before the IDAM whose CRC failed.
C13_BadIdamSkipsDamUnlocked ==
    h.op = "write" =>
      \A k \in 2..Len(h.ev) :
        (/\ h.ev[k].mark = 251 /\ h.ev[k - 1].mark = 254
         /\ h.ev[k - 1].crc # 0 /\ ws_before(k - 1) < 0)
            => h.ev[k].nlog = nlog_before(k)

\* C14: write_sector is -2, -1 or a sector of the track in every state, and
\* the conversion of the write start never applies sec_map[] to an index
\* outside 0..nr_sectors-1.
C14_WriteSectorRange ==
    /\ im.write_sector \in {-2, -1} \cup 0..(im.nr_sectors - 1)
    /\ h.op = "write" => h.smi \subseteq 0..(im.nr_sectors - 1)

\* The same for writes that start at or after byte idx_sz + idam_sz -
\* enc_sec_sz/2 of the track.
C14_WriteSectorRangeLateStart ==
    (wq.start \div im.ticks_per_cell
        >= im.idx_sz + im.idam_sz - enc_sec_sz(im) \div 2)
      => C14_WriteSectorRange


\* The sector a DAM at event k of the call recorded in hh is written to:
\* that of the last IDAM with a good CRC before it in the call, else the
\* one write_sector held when the scan began.
RECURSIVE target_sector(_, _)
target_sector(hh, k) ==
    IF k = 1 THEN hh.ws0
    ELSE IF hh.ev[k - 1].mark = 254 /\ hh.ev[k - 1].crc = 0
         THEN hh.ev[k - 1].ws
         ELSE target_sector(hh, k - 1)

\* A write_track step: the value found in write_sector is kept unless it is
\* -1; a -1 is replaced by sec_map[r] - sec_base for the rotational slot r
\* of the write start (-2 when r is past the last sector); every DAM the
\* call writes goes to the sector of target_sector.
InferStep ==
    h'.op = "write" =>
      LET r == infer_rotational(im, wq.start \div im.ticks_per_cell)
      IN  /\ im.write_sector # -1 => h'.ws0 = im.write_sector
          /\ (im.write_sector = -1 /\ r >= im.nr_sectors) => h'.ws0 = -2
          /\ (im.write_sector = -1 /\ r \in 0..(im.nr_sectors - 1)) =>
                h'.ws0 = I8(im.sec_map[r] - sec_base(im))
          /\ \A k \in 1..Len(h'.ev) :
                (h'.ev[k].mark = 251 /\ Len(file'.log) >= h'.ev[k].nlog
                 /\ h'.ev[k].nlog = (IF k = 1 THEN h'.nlog
                                     ELSE h'.ev[k - 1].nlog) + 1) =>
                    file'.log[h'.ev[k].nlog].off
                        = im'.trk_off + target_sector(h', k) * sec_sz(im')

\* write_sector becomes -1 in setup_track only.
UnknownStep ==
    (im'.write_sector = -1 /\ im.write_sector # -1) => h'.op = "wstart"

\* C24: the sector is inferred from the write start only while write_sector
\* is -1, which is the first write_track call after setup_track and no
\* later one; the inferred slot r becomes sec_map[r] - sec_base, and a DAM
\* is written to the inferred sector only when no IDAM with a good CRC was
\* decoded before it.
C24_InferredOnce ==
    /\ [][InferStep /\ UnknownStep]_vars
    /\ [](h.op = "write" => im.write_sector # -1)

\* The same for writes that start at or after byte idx_sz + idam_sz -
\* enc_sec_sz/2 of the track.
C24_InferredOnceLateStart ==
    /\ [][InferStep /\ UnknownStep]_vars
    /\ []((h.op = "write"
           /\ wq.start \div im.ticks_per_cell
                >= im.idx_sz + im.idam_sz - enc_sec_sz(im) \div 2)
          => im.write_sector # -1)

\* A call that wrote a DAM to the sector inferred from the write start.
C24_Witness ==
    /\ h.op = "write" /\ Len(h.ev) >= 1
    /\ h.ev[1].mark = 251 /\ h.ev[1].nlog = h.nlog + 1
    /\ h.ws0 >= 0
    /\ wq.start \div im.ticks_per_cell
         >= im.idx_sz + im.idam_sz - enc_sec_sz(im) \div 2


\* Frame j is an IDAM of the track with a good CRC behind three sync words,
\* and the frame after it a DAM with a good CRC behind two, wholly inside
\* the captured window.
idam_triple(j) ==
    /\ j + 1 <= Len(wq.sent)
    /\ wq.sent[j].mark = 254 /\ wq.sent[j].good /\ wq.sent[j].syncs = 3
    /\ U8(wq.sent[j].id - sec_base(im)) < im.nr_sectors
    /\ wq.sent[j + 1].mark = 251 /\ wq.sent[j + 1].good
    /\ wq.sent[j + 1].syncs = 2
    /\ frame_end(j + 1) * 16 <= wq.bc_end

\* C26: in MFM an IDAM with a good CRC behind three 0x4489 words locks
\* write_sector to its sector (the DAM after it is written there), and a
\* DAM with a good CRC behind three 0x4489 words is committed to the locked
\* sector, as with one or two sync words.
C26_TripleSync ==
    (h.op = "write" /\ h.ret /\ im.sync # SYNC_fm) =>
        \A j \in 1..Len(wq.sent) :
            /\ idam_triple(j) => dam_in_file(j + 1)
            /\ dam_whole(j, {3}) => dam_in_file(j)

\* The same for the DAMs alone.
C26_TripleSyncDam ==
    (h.op = "write" /\ h.ret /\ im.sync # SYNC_fm) =>
        \A j \in 1..Len(wq.sent) : dam_whole(j, {3}) => dam_in_file(j)

\* No mark behind three 0x4489 words is decoded at all: every mark a call
\* decodes in MFM lies behind one or two sync words of a frame.
C26_TripleNeverDecoded ==
    (h.op = "write" /\ im.sync # SYNC_fm) =>
        \A k \in 1..Len(h.ev) :
            \E j \in 1..Len(wq.sent) :
                /\ wq.sent[j].syncs \in {1, 2}
                /\ h.ev[k].c = frame_end(j - 1) + 1 + wq.sent[j].syncs + 1


(***************************************************************************)
(* SpecRound: a sector is written to a newly mounted MFM image and the     *)
(* same track is then set up for reading and read.                         *)
(***************************************************************************)

\* Images of the round trip: three 128-byte sectors, and 33 sectors of
\* 2048 bytes (a long track of 67584 bytes).
RoundGeoms ==
    { img_open_found(ZeroImage, Type(3, 1, 1, 30, 1, 0, 1, 0, 0, 40, 300), 40).im,
      pc_dos_open(2048, 33, 1, 66).im }

\* The host writes the first or the last sector of the track: its IDAM, its
\* DAM.
RoundFrames(m) ==
    { Frame(254, 2, m.sec_map[0], 0, TRUE),
      Frame(254, 2, m.sec_map[m.nr_sectors - 1], 0, TRUE),
      Frame(251, 2, 0, 1, TRUE) }

\* The read starts at the IDAM of the first or of the last slot, and goes
\* on to the end of the track, the pump draining the ring after each call.
RoundReadStarts(m) ==
    { m.idx_sz + slot * enc_sec_sz(m) : slot \in {0, m.nr_sectors - 1} }

RoundInit ==
    /\ im \in RoundGeoms
    /\ rd = NoBuf
    /\ bc = [prod |-> 0, cons |-> 0, buf |-> Rep(0, BC_LEN \div 2)]
    \* the write ring holds the largest sector of the image and its header
    /\ wr = [prod |-> 0, cons |-> 0,
             buf |-> Rep(0, IF sec_sz(im) + 5 > WR_WORDS THEN 8 * WR_WORDS
                            ELSE WR_WORDS)]
    /\ wq = NoQueue /\ heap = NoHeap
    /\ \E fill \in FileFills : file = [fill |-> fill, log |-> <<>>]
    /\ h = [op |-> "open", ret |-> FALSE, ev |-> <<>>, nlog |-> 0]

RoundNext ==
    \/ \E ts \in {ts \in WriteStarts : ts[2] # 0} : WriteStart(ts[1], ts[2])
    \/ \E fr \in (IF wq.writing THEN RoundFrames(im) ELSE {}) : Pump(fr)
    \/ PumpEnd(0)
    \/ WriteTrack
    \/ \E s \in (IF h.op = "write" THEN RoundReadStarts(im) ELSE {}) :
          ReadSetup(im.cur_track, s)
    \/ /\ h.op \in {"setup", "consume"} /\ h.revs = 0 /\ bc.cons = bc.prod
       /\ ReadTrack
    \/ Consume(0)

SpecRound == RoundInit /\ [][RoundNext]_vars

\* The payloads the write path committed for sector `id': the pump captured
\* a good IDAM of id and a good DAM behind it, and the payload was written.
Committed(id) ==
    { file.log[k].data : k \in
        { k \in 1..Len(file.log) :
            \E j \in 1..(Len(wq.sent) - 1) :
               /\ wq.sent[j] = Frame(254, 2, id, 0, TRUE)
               /\ wq.sent[j + 1].mark = 251 /\ wq.sent[j + 1].good
               /\ file.log[k].data = pay_bytes(im, wq.sent[j + 1].seed) } }

\* C1: after the write path committed payload P for a sector, the DATA
\* phase behind the IDAM of that sector's ID (the ID of the slot being
\* read, sec_map[slot]) holds the bytes of P, the IDAM has CRC 0 and so has
\* the DAM (header, P, CRC bytes).
C1_RoundTrip ==
    (h.op \in {"setup", "read"} /\ h.ret /\ h.pub.slot >= 0
       /\ Committed(im.sec_map[h.pub.slot]) # {})
    => \A P \in Committed(im.sec_map[h.pub.slot]) :
        /\ h.pub.kind = "DATA" =>
             [i \in 1..h.pub.len |-> mfmtobin(h.words[i])]
               = SubSeq(P, h.pub.chunk * 1024 + 1,
                           h.pub.chunk * 1024 + h.pub.len)
        /\ h.pub.kind = "IDAM" =>
             crc16_ccitt(<<161, 161, 161>>
                 \o [i \in 1..7 |->
                       mfmtobin(h.words[idam_gap_sync(im) + 3 + i])],
                 65535) = 0
        /\ h.pub.kind = "POST" =>
             crc16_ccitt(<<161, 161, 161, 251>> \o P
                 \o <<mfmtobin(h.words[1]), mfmtobin(h.words[2])>>,
                 65535) = 0

\* The round trip on tracks shorter than 65536 bytes.
C1_RoundTripShortTrack ==
    im.nr_sectors * sec_sz(im) < 65536 => C1_RoundTrip

\* The DATA phase of a committed sector was read back.
C1_Witness ==
    /\ h.op \in {"setup", "read"} /\ h.ret /\ h.pub.kind = "DATA"
    /\ Committed(im.sec_map[h.pub.slot]) # {}
    /\ im.nr_sectors * sec_sz(im) < 65536


(***************************************************************************)
(* SpecHfe: the host writes over a track of an HFEv3 image that holds      *)
(* opcodes.                                                                *)
(***************************************************************************)

\* <<position in the track, byte, sides that hold it>> of the opcodes of the
\* track: index, bitrate + operand, nop, skip + operand, rand, a bitrate
\* whose operand is the first byte of the next 256-byte block, a bitrate +
\* operand inside the second block of side 1, rand.
HfeOps ==
    << <<0, 143, {0, 1}>>, <<1, 79, {0, 1}>>, <<2, 72, {0, 1}>>,
       <<10, 15, {0, 1}>>, <<20, 207, {0, 1}>>, <<21, 8, {0, 1}>>,
       <<30, 47, {0, 1}>>, <<255, 79, {0, 1}>>, <<256, 72, {0, 1}>>,
       <<269, 79, {1}>>, <<270, 72, {1}>>, <<300, 47, {0, 1}>> >>

\* An HFEv3 file of one cylinder: the header block, the track lookup table
\* in block 1 (1200 bytes from block 2: 600 bytes a side), and the opcodes
\* among data bytes 0x22.
HfeV3File ==
    [fill |-> 34,
     log |-> << [off |-> 0,
                 data |-> SIG_HFEV3 \o <<0, 1, 2, 0, 250, 0, 0, 0, 0, 1,
                                          1, 0, 1, 255>>],
                [off |-> 512, data |-> <<2, 0, 176, 4>>] >>
             \o [k \in 1..(2 * Len(HfeOps)) |->
                   LET op   == HfeOps[((k - 1) % Len(HfeOps)) + 1]
                       side == (k - 1) \div Len(HfeOps)
                   IN  [off |-> 1024 + (op[1] \div 256) * 512 + side * 256
                                + (op[1] % 256),
                        data |-> <<IF side \in op[3] THEN op[2] ELSE 34>>]]]

\* Runs of bitcell bytes the host writes.
HfeFrames == { [mark |-> 0, len |-> n] : n \in {3, 40, 300} }

\* <<track, start byte>> pairs of a write: at an opcode, at the operand of
\* a bitrate opcode, at the first byte of the second block, inside the
\* second block.
HfeStarts == {<<0, 0>>, <<0, 2>>, <<1, 2>>, <<0, 256>>, <<0, 270>>, <<1, 270>>}

HfeInit ==
    /\ hfe_open(HfeV3File).ok
    /\ im = hfe_open(HfeV3File).im
    /\ file = HfeV3File
    /\ rd = NoBuf /\ bc = NoBuf
    /\ wr = [prod |-> 0, cons |-> 0, buf |-> Rep(0, 2 * WR_WORDS),
             wdata |-> <<>>]
    /\ wq = NoQueue /\ heap = NoHeap
    /\ h = [op |-> "open", ret |-> FALSE, ev |-> <<>>, nlog |-> Len(file.log)]

HfeNext ==
    \/ \E ts \in HfeStarts : WriteStart(ts[1], ts[2])
    \/ \E fr \in HfeFrames : Pump(fr)
    \/ \E cut \in WriteCuts : PumpEnd(cut)
    \/ WriteTrack

SpecHfe == HfeInit /\ [][HfeNext]_vars

\* C8: after a write is flushed, every nop, index, bitrate and skip opcode
\* of the track, and the operand of bitrate and skip, is the byte it was,
\* and no rand opcode is left in the range that was written.
C8_OpcodesPreserved ==
    (h.op = "write" /\ h.ret) =>
      \A k \in {j \in 1..Len(HfeOps) : (im.cur_track % 2) \in HfeOps[j][3]} :
        LET pos == HfeOps[k][1]
            at  == im.hfe.trk_off * 512 + (pos \div 256) * 512
                   + (im.cur_track % 2) * 256 + (pos % 256)
        IN  IF HfeOps[k][2] = OP_rand * 16 + 15
            THEN (IF im.hfe.write.wrapped
                  THEN pos >= im.hfe.write.start \/ pos < im.hfe.trk_pos
                  ELSE pos >= im.hfe.write.start /\ pos < im.hfe.trk_pos)
                 => byte_at(file, at) # HfeOps[k][2]
            ELSE byte_at(file, at) = HfeOps[k][2]

\* The same for writes that start in the first 256-byte block of the track.
C8_OpcodesPreservedFirstBlock ==
    im.hfe.write.start < 256 => C8_OpcodesPreserved

\* The same for writes that do not start on a 256-byte block boundary.
C8_OpcodesPreservedMidBlock ==
    im.hfe.write.start % 256 # 0 => C8_OpcodesPreserved


(***************************************************************************)
(* SpecFlux: a track is set up for reading, read_track fills the bitcell   *)
(* ring and rdata_flux turns bitcells into flux samples.                   *)
(***************************************************************************)
MaxCalls == 3
MaxBlocks == 6

\* <<position in the track, byte>> of the opcodes of the HFEv3 track: one
\* index opcode, then rand, nop, skip + operand.
FluxOps == << <<128, 143>>, <<200, 47>>, <<210, 15>>, <<220, 207>>,
              <<221, 160>> >>

\* An HFE file of one cylinder, 300 bytes a side from block 2, data bytes
\* 0xA1 (flux at bits 0, 5 and 7), with the opcodes `ops' on both sides.
FluxFile(sig, ops) ==
    [fill |-> 161,
     log |-> << [off |-> 0,
                 data |-> sig \o <<0, 1, 2, 0, 250, 0, 0, 0, 0, 1,
                                    1, 0, 1, 255>>],
                [off |-> 512, data |-> <<2, 0, 88, 2>>] >>
             \o [k \in 1..(2 * Len(ops)) |->
                   LET op   == ops[((k - 1) % Len(ops)) + 1]
                       side == (k - 1) \div Len(ops)
                   IN  [off |-> 1024 + (op[1] \div 256) * 512 + side * 256
                                + (op[1] % 256),
                        data |-> <<op[2]>>]]]

FluxFiles == {FluxFile(SIG_PICFE, <<>>), FluxFile(SIG_HFEV3, FluxOps)}

\* <<track, start byte>> pairs of a setup: bit 0, inside each block, past
\* the end of the track.
FluxStarts == {<<0, 0>>, <<1, 0>>, <<0, 100>>, <<1, 290>>, <<0, 400>>}
\* Flux samples asked for in one call.
FluxNrs == {1, 450, 900}
\* Bytes rand() returns.
RandBytes == {0, 129}

FluxInit ==
    /\ rd = NoBuf
    /\ wr = NoBuf /\ wq = NoQueue /\ heap = NoHeap
    /\ \/ /\ file \in FluxFiles
          /\ hfe_open(file).ok
          /\ im = hfe_open(file).im
          /\ bc = [prod |-> 0, cons |-> 0, buf |-> Rep(0, BC_LEN)]
       \/ /\ im \in ReadGeoms
          /\ file = [fill |-> 161, log |-> <<>>]
          /\ bc = [prod |-> 0, cons |-> 0, buf |-> Rep(0, BC_LEN \div 2)]
    /\ h = [op |-> "open", calls |-> 0, start |-> 0, done |-> 0,
            sum |-> 0, cells |-> 0, ok |-> TRUE, wdone |-> -1, rnd |-> 0]

FluxSetup(track, start) ==
    /\ h.op = "open"
    /\ \E r \in {IF im.handler = "hfe"
                  THEN hfe_setup_track(im, rd, bc, file, track,
                                       start * im.ticks_per_cell, 0)
                  ELSE img_setup_track(im, rd, bc, file, track,
                                       start * im.ticks_per_cell)} :
          /\ ~r.hang
          /\ im' = r.im /\ rd' = r.rd /\ bc' = r.bc
    /\ h' = [op |-> "setup", calls |-> 0, start |-> start, done |-> 0,
             sum |-> 0, cells |-> 0, ok |-> TRUE, wdone |-> -1, rnd |-> 0]
    /\ UNCHANGED <<wr, wq, file, heap>>

FluxRead ==
    /\ h.op # "open" /\ im.handler = "hfe"
    /\ bc.prod < MaxBlocks * 2048
    /\ \E r \in {hfe_read_track(im, rd, bc, file)} :
          /\ im' = r.im /\ rd' = r.rd /\ bc' = r.bc
    /\ h' = [h EXCEPT !.op = "read"]
    /\ UNCHANGED <<wr, wq, file, heap>>

FluxData(nr, rnd) ==
    /\ h.op # "open" /\ im.handler = "hfe"
    /\ h.calls < MaxCalls
    /\ \E r \in {hfe_rdata_flux(im, bc, nr, rnd)} :
          /\ im' = r.im /\ bc' = r.bc
          /\ h' = [h EXCEPT !.op = "flux", !.calls = @ + 1, !.done = r.done,
                            !.sum = @ + r.sum, !.cells = @ + r.cells,
                            !.ok = r.ok, !.wdone = r.wdone, !.rnd = rnd]
    /\ UNCHANGED <<rd, wr, wq, file, heap>>

FluxNext ==
    \/ \E ts \in FluxStarts : FluxSetup(ts[1], ts[2])
    \/ FluxRead
    \/ \E nr \in FluxNrs, rnd \in RandBytes : FluxData(nr, rnd)

SpecFlux == FluxInit /\ [][FluxNext]_vars

\* C15: 0 <= cur_bc < tracklen_bc whenever setup_track or rdata_flux has
\* returned.
C15_CurBcInTrack ==
    h.op # "open" => (0 <= im.cur_bc /\ im.cur_bc < im.tracklen_bc)

\* The same after setup_track only.
C15_CurBcInTrackAtSetup ==
    h.op = "setup" => (0 <= im.cur_bc /\ im.cur_bc < im.tracklen_bc)

\* One revolution of the HFEv3 track has been read from bit 0 of a newly
\* mounted image (the wrap has recorded tracklen_ticks).
one_revolution ==
    /\ h.op = "flux" /\ im.hfe.is_v3 /\ h.start = 0
    /\ im.tracklen_ticks > 0

\* cur_ticks at the index opcode: only data bytes come before it.
index_ticks == FluxOps[1][1] * 8 * im.ticks_per_cell

\* C19 with the version counter incremented exactly once.
C19_AsStated ==
    one_revolution =>
        /\ im.index_pulses[0] = index_ticks
        /\ im.index_pulses_len = 1
        /\ im.index_pulses_ver = 1

\* C19: after one revolution read from bit 0 of a track with one index
\* opcode, index_pulses[0] is the cur_ticks reached at the opcode,
\* index_pulses_len is 1, and the version counter has been incremented
\* twice: when the timestamp was stored and when the length was exported.
C19_IndexPulseRecorded ==
    /\ one_revolution =>
          /\ im.index_pulses[0] = index_ticks
          /\ im.index_pulses_len = 1
          /\ im.index_pulses_ver = 2
    /\ (im.hfe.is_v3 /\ h.start = 0 /\ im.tracklen_ticks = 0) =>
          /\ im.index_pulses_len = 0
          /\ im.index_pulses_ver = (IF im.index_pulses[0] = 0 THEN 0 ELSE 1)

C19_Witness ==
    one_revolution /\ im.index_pulses[0] = index_ticks
(***************************************************************************)
(* SpecOpen: a file is mounted by img_open under a host profile, or by one *)
(* of the openers chosen by file name extension.                           *)
(***************************************************************************)
Hosts == {"default", "akai", "gem", "casio", "dec", "ensoniq", "fluke",
          "kaypro", "memotech", "msx", "nascom", "pc98", "pc_dos", "ti99",
          "uknc"}
Exts  == {"adfs", "d81", "mbd", "mgt", "ssd", "dsd"}

\* File sizes: images of the default and the host tables (one of them a
\* long track, 901120, and one a trimmed track, 1720320), sizes two rows can
\* explain (368640, 409600, 819200), TI99 sizes and sizes of no geometry.
OpenSizes == {512, 1000, 92160, 163840, 184320, 327680, 368640, 409600,
              655360, 737280, 819200, 901120, 1228800, 1261568, 1310720,
              1474560, 1638400, 1720320, 2949120}

\* Boot sectors: a BIOS parameter block and signature word, or a TI99 VIB.
Bpb(sig, bytes_per_sec, sec_per_track, num_heads, tot_sec) ==
    << [off |-> 11, data |-> <<bytes_per_sec % 256, bytes_per_sec \div 256>>],
       [off |-> 19, data |-> <<tot_sec % 256, tot_sec \div 256>>],
       [off |-> 24, data |-> <<sec_per_track % 256, sec_per_track \div 256,
                               num_heads, 0>>],
       [off |-> 510, data |-> <<sig % 256, sig \div 256>>] >>
Vib(tracks_per_side, sides) ==
    << [off |-> 13, data |-> <<68, 83, 75, 32, tracks_per_side, sides>>] >>

\* Signature words: 0xaa55, its bytes swapped, none.
Sigs == {43605, 21930, 0}

OpenFiles ==
    { OpenFile(s, <<>>) : s \in OpenSizes }
    \cup { OpenFile(s, Bpb(sig, 512, 9, 2, 1440)) :
             s \in {512, 737280}, sig \in Sigs }
    \cup { OpenFile(368640, Bpb(sig, 512, 9, heads, 720)) :
             heads \in 1..2, sig \in {43605, 0} }
    \cup { OpenFile(1000, Bpb(sig, 128, 56, 2, 8960)) : sig \in Sigs }
    \cup { OpenFile(737280, Bpb(43605, 512, 0, 2, 1440)),
           OpenFile(737280, Bpb(43605, 500, 9, 2, 1440)),
           OpenFile(368640, Vib(80, 2)),
           OpenFile(184320, Vib(40, 1)) }

OpenInit ==
    /\ im = ZeroImage
    /\ rd = NoBuf /\ bc = NoBuf /\ wr = NoBuf /\ wq = NoQueue /\ heap = NoHeap
    /\ file \in OpenFiles
    /\ h = [op |-> "mount", by |-> "", ok |-> FALSE, asserted |-> TRUE,
            walks |-> <<>>]

ImgOpen(host) ==
    /\ h.op = "mount"
    /\ \E r \in {img_open(host, file)} :
          /\ im' = r.im
          /\ h' = [op |-> "open", by |-> host, ok |-> r.ok,
                   asserted |-> r.asserted, walks |-> r.walks]
    /\ UNCHANGED <<rd, bc, wr, wq, file, heap>>

ExtOpen(ext) ==
    /\ h.op = "mount"
    /\ \E r \in {ext_open(ext, file)} :
          /\ im' = r.im
          /\ h' = [op |-> "open", by |-> ext, ok |-> r.ok,
                   asserted |-> r.asserted, walks |-> r.walks]
    /\ UNCHANGED <<rd, bc, wr, wq, file, heap>>

\* Tracks the drive is stepped to after the mount.
OpenTracks == {0, 1, 6}

\* img_setup_track(im, track, NULL) on a mounted image.
OpenSetup(track) ==
    /\ h.op \in {"open", "setup"} /\ h.ok /\ h.asserted
    /\ \E r \in {img_setup_track(im, rd, bc, file, track, -1)} :
          /\ ~r.hang
          /\ im' = r.im /\ rd' = r.rd /\ bc' = r.bc
    /\ h' = [h EXCEPT !.op = "setup"]
    /\ UNCHANGED <<wr, wq, file, heap>>

OpenNext ==
    \/ \E host \in Hosts : ImgOpen(host)
    \/ \E ext \in Exts : ExtOpen(ext)
    \/ \E track \in OpenTracks : OpenSetup(track)

SpecOpen == OpenInit /\ [][OpenNext]_vars

\* The encoded minimum track length of the mounted image, in bitcells.
min_tracklen == (enc_sec_sz(im) * im.nr_sectors + im.idx_sz) * 16

\* C16: after a successful mfm_open or fm_open tracklen_bc is a multiple of
\* 32 and at least the encoded minimum track length as finally adopted, and
\* gap_4 = (tracklen_bc - tracklen)/16 is computed without underflow.
C16_TrackLength ==
    (h.op = "open" /\ h.ok) =>
        /\ h.asserted
        /\ im.tracklen_bc % 32 = 0
        /\ im.tracklen_bc >= min_tracklen
        /\ im.gap_4 = (im.tracklen_bc - min_tracklen) \div 16
        /\ im.gap_4 >= 0

\* An MFM image whose GAP4A was trimmed away to fit the standard track.
C16_Witness ==
    /\ h.op = "open" /\ h.ok
    /\ im.sync = SYNC_mfm /\ im.gap_4a = 0 /\ im.idx_sz = GAP_SYNC + 4 + GAP_1
    /\ im.tracklen_bc = 200000

\* An MFM image on a long track, and an FM image.
C16_WitnessLongTrack ==
    /\ h.op = "open" /\ h.ok
    /\ im.sync = SYNC_mfm /\ im.gap_4a # 0
    /\ im.tracklen_bc = round_up_32(min_tracklen + 100)
C16_WitnessFm ==
    h.op = "open" /\ h.ok /\ im.sync = SYNC_fm

\* The <<row, nr_cyls>> pairs of a table that explain a payload size.
Matches(tab, size) ==
    { p \in (1..Len(tab)) \X (38..85) :
        /\ p[2] \in (IF tab[p[1]].cyls = 1 THEN 38..42 ELSE 77..85)
        /\ p[2] * tab[p[1]].nr_secs * (128 * Pow2(tab[p[1]].no))
                * (tab[p[1]].nr_sides + 1) = size }

\* p comes no later than q in the walk: by row, then by cylinder count.
Before(p, q) == p[1] < q[1] \/ (p[1] = q[1] /\ p[2] <= q[2])

\* The image carries the fields of row type with nr_cyls cylinders.
Adopted(type, nr_cyls) ==
    /\ im.nr_cyls = nr_cyls /\ im.nr_sides = type.nr_sides + 1
    /\ im.sec_no = type.no /\ im.interleave = type.interleave
    /\ im.skew = type.skew /\ im.nr_sectors = type.nr_secs
    /\ im.gap_3 = type.gap3 /\ im.rpm = (type.rpm + 5) * 60
    /\ im.sec_base[1] = type.base
    /\ im.sec_base[2] = type.base + (IF type.inter_track_numbering = 1
                                     THEN type.nr_secs ELSE 0)
    /\ im.has_iam = (type.has_iam = 1)

\* C17: every walk of _img_open adopts the first <<row, nr_cyls>> in table
\* order, cylinder counts increasing, whose image size equals the payload
\* size (f_size - base_off, or 0 for a shorter file), copies that row's
\* fields and calls mfm_open; it returns FALSE without calling mfm_open
\* exactly when the table has no such pair.
C17_TableWalk ==
    h.op = "open" =>
        \A k \in 1..Len(h.walks) :
            LET w == h.walks[k]
                P == Matches(w.tab, w.size)
            IN  /\ w.size = (IF file.size < im.base_off THEN 0
                             ELSE file.size - im.base_off)
                /\ w.opened = (P # {})
                /\ (P = {}) => w.hit = <<0, 0>>
                /\ (P # {}) => /\ w.hit \in P
                               /\ \A q \in P : Before(w.hit, q)
                               /\ k = Len(h.walks)
                               /\ h.ok
                               /\ Adopted(w.tab[w.hit[1]], w.hit[2])
                /\ (k = Len(h.walks) /\ P = {}) => ~h.ok

\* A size two rows of the default table explain (9 sectors, 2 sides, 40
\* cylinders and 9 sectors, 1 side, 80 cylinders): the earlier row is taken.
C17_Witness ==
    /\ h.op = "open" /\ h.by = "default" /\ h.ok
    /\ Len(h.walks) = 1
    /\ Cardinality(Matches(h.walks[1].tab, h.walks[1].size)) > 1
    /\ im.nr_cyls = 40 /\ im.nr_sides = 2

\* A walk that reaches the terminator.
C17_WitnessNoMatch ==
    h.op = "open" /\ ~h.ok /\ Len(h.walks) = 2 /\ ~h.walks[2].opened

\* The file's boot-sector signature is not 0xaa55.
no_signature == le16(file, 510) # 43605

\* C18 (as stated): under host pc_dos an image without the boot-sector
\* signature 0xaa55 is rejected, whatever the file size.
C18_AsStated ==
    (h.op = "open" /\ h.by = "pc_dos" /\ no_signature) => ~h.ok

\* C18 (amended): under host pc_dos an image without the signature is not
\* opened from its BPB: img_open walks the default table instead, and
\* returns FALSE exactly when no row of that table explains the file size.
C18_NoSignatureFallsBack ==
    (h.op = "open" /\ h.by = "pc_dos" /\ no_signature) =>
        /\ Len(h.walks) = 1
        /\ h.walks[1].tab = img_type
        /\ h.walks[1].size = file.size
        /\ h.ok = (Matches(img_type, file.size) # {})
        /\ h.ok => \E p \in Matches(img_type, file.size) :
                      Adopted(img_type[p[1]], p[2])

\* An image without the signature that the default table accepts, and one
\* with a plausible BPB that is rejected.
C18_Witness ==
    /\ h.op = "open" /\ h.by = "pc_dos" /\ no_signature
    /\ h.ok /\ file.size = 737280
C18_WitnessRejected ==
    /\ h.op = "open" /\ h.by = "pc_dos" /\ no_signature
    /\ ~h.ok /\ bpb_read(file).bytes_per_sec = 128

\* The mount of a 1474560-byte image under the default host profile.
hd1440 == h.op # "mount" /\ h.by = "default" /\ file.size = 1474560
hd1440_geometry ==
    /\ h.ok
    /\ im.nr_cyls = 80 /\ im.nr_sides = 2
    /\ im.sec_no = 2 /\ im.nr_sectors = 18 /\ im.gap_3 = 84 /\ im.has_iam
    /\ (h.op = "setup" /\ im.cur_track = 0) =>
          im.sec_map = [i \in 0..17 |-> i + 1]

\* C21 (as stated): a 1474560-byte image under the default host profile
\* opens with 80 cylinders, 2 sides, sec_no 2, 18 sectors, gap_3 84, an IAM
\* and data_rate 500; sec_map of cylinder 0 side 0 is 1, 2, ..., 18.
C21_AsStated == hd1440 => (hd1440_geometry /\ im.data_rate = 500)

\* C21 (amended): the same with data_rate 1000, the bitcell rate of an HD
\* track (250 << 2).
C21_Hd1440 == hd1440 => (hd1440_geometry /\ im.data_rate = 1000)

C21_Witness == hd1440 /\ h.op = "setup" /\ im.cur_track = 0

\* The mount of a 409600-byte image under host profile kaypro, and the
\* sector map after a seek to cylinder 0, side 1.
kaypro400 == h.op # "mount" /\ h.by = "kaypro" /\ file.size = 409600
kaypro400_side1 == kaypro400 /\ h.op = "setup" /\ im.cur_track = 1

\* C22 (as stated): inter-track numbering gives sec_base[0] = 1 and
\* sec_base[1] = 11, and sec_map of cylinder 0 side 1 is a permutation of
\* 11..20 laid out with interleave 3.
C22_AsStated ==
    /\ kaypro400 => (h.ok /\ im.sec_base = <<1, 11>>)
    /\ kaypro400_side1 =>
          \A i \in 0..9 : im.sec_map[(3 * i) % 10] = 11 + i

\* C22 (amended): the Kaypro rows number from 0: sec_base[0] = 0 and
\* sec_base[1] = 10, and sec_map of cylinder 0 side 1 is a permutation of
\* 10..19 laid out with interleave 3.
C22_Kaypro400 ==
    /\ kaypro400 => (h.ok /\ im.nr_cyls = 40 /\ im.nr_sides = 2
                     /\ im.nr_sectors = 10 /\ im.interleave = 3
                     /\ im.sec_base = <<0, 10>>)
    /\ kaypro400_side1 =>
          /\ { im.sec_map[i] : i \in 0..9 } = 10..19
          /\ \A i \in 0..9 : im.sec_map[(3 * i) % 10] = 10 + i

C22_Witness == kaypro400_side1 /\ im.sec_map[3] = 11

(***************************************************************************)
(* SpecHd: the host writes sectors to cylinder 3 of a 1474560-byte image   *)
(* mounted under the default host profile.                                 *)
(***************************************************************************)

\* <<track, start byte>> of the writes: cylinder 3, either head.
HdStarts == {<<6, 0>>, <<6, 4000>>, <<7, 0>>}

\* IDAMs of sectors 7 and 1, an IDAM of sector 7 with a bad CRC, a DAM and
\* a DAM with a bad CRC.
HdFrames ==
    { Frame(254, 2, 7, 0, TRUE), Frame(254, 2, 1, 0, TRUE),
      Frame(254, 2, 7, 0, FALSE),
      Frame(251, 2, 0, 1, TRUE), Frame(251, 2, 0, 2, FALSE) }

HdInit ==
    /\ im = img_open("default", OpenFile(1474560, <<>>)).im
    /\ rd = NoBuf /\ bc = NoBuf
    /\ wr = [prod |-> 0, cons |-> 0, buf |-> Rep(0, 8 * WR_WORDS)]
    /\ wq = NoQueue /\ heap = NoHeap
    /\ file = [fill |-> 300, log |-> <<>>, size |-> 1474560]
    /\ h = [op |-> "open", ret |-> FALSE, ev |-> <<>>, nlog |-> 0]

HdNext ==
    \/ \E ts \in HdStarts : WriteStart(ts[1], ts[2])
    \/ \E fr \in (IF wq.writing THEN HdFrames ELSE {}) : Pump(fr)
    \/ PumpEnd(0)
    \/ WriteTrack

SpecHd == HdInit /\ [][HdNext]_vars

\* Event k of the last write_track call is a DAM with a good CRC behind a
\* good IDAM of sector 7, on cylinder 3 side 0.
sector7_dam(k) ==
    /\ h.op = "write" /\ im.cur_track = 6
    /\ k >= 2 /\ k <= Len(h.ev)
    /\ h.ev[k].mark = 251 /\ h.ev[k].crc = 0
    /\ h.ev[k - 1].mark = 254 /\ h.ev[k - 1].crc = 0
    /\ idam_id(h.ev[k - 1]) = 7

\* The DAM of event k was committed at file offset off.
committed_at(k, off) ==
    /\ h.ev[k].nlog = nlog_before(k) + 1
    /\ file.log[h.ev[k].nlog].off = off
    /\ file.log[h.ev[k].nlog].data = wr_bytes(wr, h.ev[k].c, 512)

\* C23 (as stated): on the 80x2x18x512 image a valid DAM for sector ID 7 on
\* cylinder 3 side 0 is committed at (3*2 + 0)*18*512 + (7-1)*512, and that
\* offset equals 58880.
C23_AsStated ==
    \A k \in 1..Len(h.ev) :
        sector7_dam(k) =>
            /\ committed_at(k, (3 * 2 + 0) * 18 * 512 + (7 - 1) * 512)
            /\ committed_at(k, 58880)

\* C23 (amended): the DAM is committed at (3*2 + 0)*18*512 + (7-1)*512,
\* which is 58368.
C23_Sector7Offset ==
    \A k \in 1..Len(h.ev) :
        sector7_dam(k) =>
            /\ committed_at(k, (3 * 2 + 0) * 18 * 512 + (7 - 1) * 512)
            /\ committed_at(k, 58368)

C23_Witness == \E k \in 1..Len(h.ev) : sector7_dam(k)

(***************************************************************************)
(* SpecStart: a track of a newly opened image is set up for reading at     *)
(* each byte position of the revolution.                                   *)
(***************************************************************************)

StartTracks == {0, 3}

StartInit ==
    /\ ReadInit
    /\ im.handler = "img"

\* calc_start_pos at cur_bc = 16 * start.
StartPos(start) ==
    /\ h.op = "open"
    /\ start * 16 < im.tracklen_bc
    /\ \E r \in {calc_start_pos([im EXCEPT !.cur_bc = start * 16])} :
          /\ im' = r.im
          /\ h' = [op |-> "pos", decode_off |-> r.decode_off]
    /\ UNCHANGED <<rd, bc, wr, wq, file, heap>>

\* `start' is the first or the last byte of a phase or chunk.
at_edge(m, start) ==
    \/ calc_start_pos([m EXCEPT !.cur_bc = start * 16]).decode_off = 0
    \/ (start + 1) * 16 >= m.tracklen_bc
    \/ calc_start_pos([m EXCEPT !.cur_bc = (start + 1) * 16]).decode_off = 0

\* img_setup_track with the start position `start' bytes past the index,
\* for the starts at the edges of the phases.
StartAt(track, start) ==
    /\ h.op = "open"
    /\ start * 16 < im.tracklen_bc
    /\ at_edge(im, start)
    /\ \E r \in {img_setup_track(im, rd, bc, file, track,
                                  start * im.ticks_per_cell)},
          m0 \in {calc_start_pos([im EXCEPT !.cur_bc = start * 16]).im} :
          /\ ~r.hang
          /\ im' = r.im /\ rd' = r.rd /\ bc' = r.bc
          /\ h' = read_hist(h, "setup", m0, 0, r)
    /\ UNCHANGED <<wr, wq, file, heap>>

StartNext ==
    \/ \E start \in 0..(im.tracklen_bc \div 16) : StartPos(start)
    \/ \E track \in StartTracks, start \in 0..(im.tracklen_bc \div 16) :
          StartAt(track, start)

SpecStart == StartInit /\ [][StartNext]_vars

\* The bytes of the phases emitted before decode_pos in a revolution.
bytes_before(m, pos) ==
    IF pos = 0 THEN 0
    ELSE m.idx_sz
         + ((pos - 1) \div 4)
             * (m.idam_sz + m.dam_sz_pre + sec_sz(m) + m.dam_sz_post)
         + (IF (pos - 1) % 4 >= 1 THEN m.idam_sz ELSE 0)
         + (IF (pos - 1) % 4 >= 2 THEN m.dam_sz_pre ELSE 0)
         + (IF (pos - 1) % 4 >= 3 THEN sec_sz(m) ELSE 0)

\* C25: calc_start_pos at cur_bc (a multiple of 16 below tracklen_bc)
\* yields decode_pos, decode_data_pos and a byte offset d with (bytes of
\* the phases before decode_pos) + 1024*decode_data_pos + d = cur_bc/16 and
\* d smaller than the phase or chunk emitted first; after setup_track
\* read_bc.cons = 16*d is not past prod.
C25_StartPosInverts ==
    /\ h.op = "pos" =>
        /\ im.cur_bc % 16 = 0 /\ im.cur_bc < im.tracklen_bc
        /\ bytes_before(im, im.decode_pos) + 1024 * im.decode_data_pos
             + h.decode_off = im.cur_bc \div 16
        /\ h.decode_off >= 0
        /\ h.decode_off < chunk_size(im, [kind |-> phase_kind(im),
                                          chunk |-> im.decode_data_pos])
    /\ h.op = "setup" =>
        /\ im.cur_bc % 16 = 0 /\ im.cur_bc < im.tracklen_bc
        /\ bc.cons % 16 = 0
        /\ bytes_before(im, h.before.decode_pos)
             + 1024 * h.before.decode_data_pos + bc.cons \div 16
           = im.cur_bc \div 16
        /\ h.ret
        /\ h.pub.chunk = h.before.decode_data_pos
        /\ h.pub.len = chunk_size(im, h.pub)
        /\ bc.prod = 16 * h.pub.len
        /\ bc.cons \div 16 < h.pub.len
        /\ bc.cons <= bc.prod

\* The track was set up inside the second 1 KiB chunk of a sector's data,
\* and inside the last chunk of a GAP4 longer than 1 KiB.
C25_Witness ==
    /\ h.op = "setup" /\ h.pub.kind = "DATA" /\ h.pub.chunk = 1
    /\ bc.cons > 0

C25_WitnessGap4 ==
    /\ h.op = "setup" /\ h.pub.kind = "GAP4" /\ h.pub.chunk >= 1
    /\ ~h.pub.more /\ bc.cons \div 16 = h.pub.len - 1

(***************************************************************************)
(* SpecOps: as SpecFlux, on HFE tracks that hold every opcode, a run of    *)
(* index opcodes, an opcode at the end of the track and a long run of      *)
(* empty bitcells.                                                         *)
(***************************************************************************)

\* Index opcodes in the track of IndexOps: more than MAX_CUSTOM_PULSES.
NrIndexOps == MAX_CUSTOM_PULSES + 2

\* <<position, byte>>: index, nop, an opcode that is none of the five (1),
\* bitrate with operand 36 (ticks_per_cell 1152), skip with operand 5 and
\* the byte it cuts into, skip with operand 0 in front of a byte that looks
\* like an opcode, rand.
AllOps == << <<10, 143>>, <<20, 15>>, <<30, 31>>, <<40, 79>>, <<41, 36>>,
             <<50, 207>>, <<51, 160>>, <<52, 255>>,
             <<60, 207>>, <<61, 0>>, <<62, 15>>, <<70, 47>> >>

\* NrIndexOps index opcodes, one at every other byte, and a skip opcode
\* with its operand in the last two bytes of the track.
IndexOps == [k \in 1..NrIndexOps |-> <<2 * k - 1, 143>>]
            \o << <<298, 207>>, <<299, 160>> >>

\* 80 bytes without flux, and the bytes of AllOps.
GapOps == [k \in 1..80 |-> <<99 + k, 0>>] \o AllOps

\* The file of FluxFile(sig, ops), each 256-byte block of a side written
\* at once.
OpsFile(sig, ops) ==
    LET at(pos) == IF \E k \in 1..Len(ops) : ops[k][1] = pos
                   THEN ops[CHOOSE k \in 1..Len(ops) : ops[k][1] = pos][2]
                   ELSE 161
    IN  [fill |-> 161,
         log |-> << [off |-> 0,
                     data |-> sig \o <<0, 1, 2, 0, 250, 0, 0, 0, 0, 1,
                                        1, 0, 1, 255>>],
                    [off |-> 512, data |-> <<2, 0, 88, 2>>] >>
                 \o [k \in 1..4 |->
                       [off |-> 1024 + ((k - 1) \div 2) * 512
                                + ((k - 1) % 2) * 256,
                        data |-> [j \in 1..256 |->
                                    at(((k - 1) \div 2) * 256 + j - 1)]]]]

OpsFiles == { OpsFile(SIG_HFEV3, AllOps), OpsFile(SIG_HFEV3, IndexOps),
              OpsFile(SIG_PICFE, GapOps) }

OpsStarts == {<<0, 0>>, <<1, 290>>}

OpsInit ==
    /\ rd = NoBuf
    /\ wr = NoBuf /\ wq = NoQueue /\ heap = NoHeap
    /\ file \in OpsFiles
    /\ hfe_open(file).ok
    /\ im = hfe_open(file).im
    /\ bc = [prod |-> 0, cons |-> 0, buf |-> Rep(0, BC_LEN)]
    /\ h = [op |-> "open", calls |-> 0, start |-> 0, done |-> 0,
            sum |-> 0, cells |-> 0, ok |-> TRUE, wdone |-> -1, rnd |-> 0]

OpsNext ==
    \/ \E ts \in OpsStarts : FluxSetup(ts[1], ts[2])
    \/ FluxRead
    \/ \E nr \in FluxNrs, rnd \in RandBytes : FluxData(nr, rnd)

SpecOps == OpsInit /\ [][OpsNext]_vars

\* C27: whenever hfe_rdata_flux detects the end of the track, cur_bc is
\* exactly tracklen_bc (the ASSERT holds), also on v3 tracks that end in an
\* opcode; the call returns with the consumer index not past read_bc.prod.
C27_WrapAtTrackEnd ==
    h.op = "flux" => (h.ok /\ bc.cons <= bc.prod)

\* The same on tracks that do not end in a skip opcode.
C27_WrapAtTrackEndNoSkip ==
    (h.op = "flux" /\ file # OpsFile(SIG_HFEV3, IndexOps))
        => (h.ok /\ bc.cons <= bc.prod)

\* A call has passed the end of a track.
C27_Witness ==
    /\ h.op = "flux" /\ h.wdone >= 0
    /\ file # OpsFile(SIG_HFEV3, IndexOps)
    /\ im.tracklen_ticks > 0

\* Byte i of the current side's track in the file.
track_byte(i) ==
    byte_at(file, 1024 + (i \div 256) * 512 + (im.cur_track % 2) * 256
                  + (i % 256))

ones(b) == Bit(b, 0) + Bit(b, 1) + Bit(b, 2) + Bit(b, 3)
           + Bit(b, 4) + Bit(b, 5) + Bit(b, 6) + Bit(b, 7)

\* One step of reading the track as the statement of C28 says, on st = [i,
\* tpc, ticks, flux] (the byte index, ticks per cell, and what was added to
\* cur_ticks and to the flux count so far): a data byte is 8 cells; nop,
\* index and unknown opcodes are nothing; bitrate sets tpc from its
\* operand; skip drops x = operand & 7 cells of the byte after the operand
\* and the other 8 - x are data; rand is rand_cells cells and the flux of
\* the byte rnd.
as_step(st, rnd, rand_cells) ==
    LET b   == track_byte(st.i)
        arg == rbit8(track_byte(st.i + 1))
        x   == arg % 8
    IN  IF ~im.hfe.is_v3 \/ b % 16 # 15
        THEN [st EXCEPT !.i = @ + 1, !.ticks = @ + 8 * st.tpc,
                        !.flux = @ + ones(b)]
        ELSE IF b \div 16 = OP_bitrate
        THEN [st EXCEPT !.i = @ + 2,
                        !.tpc = (sysclk_us(2) * 16 * arg) \div 72]
        ELSE IF b \div 16 = OP_skip
        THEN [st EXCEPT !.i = @ + 3, !.ticks = @ + (8 - x) * st.tpc,
                        !.flux = @ + ones(track_byte(st.i + 2) \div Pow2(x))]
        ELSE IF b \div 16 = OP_rand
        THEN [st EXCEPT !.i = @ + 1, !.ticks = @ + rand_cells * st.tpc,
                        !.flux = @ + ones(rnd)]
        ELSE [st EXCEPT !.i = @ + 1]

\* as_step until the end of the track, in at most `fuel' steps (the range
\* of steps is halved until it is short).
RECURSIVE as_run(_, _, _, _)
as_run(st, rnd, rand_cells, fuel) ==
    IF st.i >= im.hfe.trk_len \/ fuel = 0 THEN st
    ELSE IF fuel > 8
    THEN Bind(as_run(st, rnd, rand_cells, fuel \div 2), LAMBDA s1 :
              as_run(s1, rnd, rand_cells, fuel - fuel \div 2))
    ELSE Bind(as_step(st, rnd, rand_cells), LAMBDA s1 :
              as_run(s1, rnd, rand_cells, fuel - 1))

as_read(tpc, rnd, rand_cells) ==
    Bind(as_run([i |-> 0, tpc |-> tpc, ticks |-> 0, flux |-> 0],
                rnd, rand_cells, im.hfe.trk_len), LAMBDA r :
         <<r.ticks, r.flux>>)

\* The first call after a setup at the index has read the whole track.
first_revolution ==
    /\ h.op = "flux" /\ h.start = 0 /\ h.calls = 1 /\ h.wdone >= 0
    /\ bc.cons < 2 * 4096

\* C28 (as stated): no opcode byte of a v3 track advances cur_ticks; nop,
\* index and unknown opcodes take 8 bitcells, bitrate 16, skip 16 plus x of
\* the next byte, whose other 8 - x bits are data; rand alone gives flux,
\* from the substituted byte; a v1 track has no opcodes.
C28_AsStated ==
    first_revolution =>
        <<im.tracklen_ticks, h.wdone>>
            = as_read(hfe_open(file).im.ticks_per_cell, h.rnd, 0)

\* C28 (amended): the same, rand being read as a data byte of 8 bitcells
\* that advance cur_ticks.
C28_OpcodesRead ==
    first_revolution =>
        <<im.tracklen_ticks, h.wdone>>
            = as_read(hfe_open(file).im.ticks_per_cell, h.rnd, 8)

\* The track with every opcode has been read; on a v1 track the same bytes
\* were data.
C28_Witness ==
    /\ first_revolution /\ file = OpsFile(SIG_HFEV3, AllOps)
    /\ h.rnd = 129

C28_WitnessV1 ==
    /\ first_revolution /\ ~im.hfe.is_v3
    /\ im.tracklen_ticks = 2400 * im.ticks_per_cell

\* C29: over the calls of hfe_rdata_flux since setup_track, the sum of
\* (sample + 1) * 16 over the samples emitted plus ticks_since_flux (0 at
\* setup) equals the sum of ticks_per_cell over the data bitcells consumed,
\* also when a call stops inside a byte and the next resumes there.
C29_FluxConserved ==
    h.op = "flux" => h.sum + im.ticks_since_flux = h.cells

\* The same on the tracks without a long run of empty bitcells.
C29_FluxConservedShortGaps ==
    (h.op = "flux" /\ file # OpsFile(SIG_PICFE, GapOps))
        => h.sum + im.ticks_since_flux = h.cells

\* A call has stopped inside a byte and the next has resumed there.
C29_Witness ==
    /\ h.op = "flux" /\ h.calls >= 2 /\ h.done = 1
    /\ bc.cons % 8 # 0
    /\ file # OpsFile(SIG_PICFE, GapOps)

\* C30: however many index opcodes a track holds, next_index_pulses_pos and
\* index_pulses_len never exceed MAX_CUSTOM_PULSES, so that index_pulses[]
\* is used at indexes below MAX_CUSTOM_PULSES only.
C30_PulsesBounded ==
    /\ im.hfe.next_index_pulses_pos <= MAX_CUSTOM_PULSES
    /\ im.index_pulses_len <= MAX_CUSTOM_PULSES

\* The same on tracks with at most MAX_CUSTOM_PULSES index opcodes.
C30_PulsesBoundedFewOps ==
    file # OpsFile(SIG_HFEV3, IndexOps) => C30_PulsesBounded

\* index_pulses[] itself is written below MAX_CUSTOM_PULSES only: the
\* timestamps of the first MAX_CUSTOM_PULSES index opcodes are recorded.
C30_WritesBounded ==
    /\ DOMAIN im.index_pulses = 0..(MAX_CUSTOM_PULSES - 1)
    /\ (h.op = "flux" /\ h.start = 0 /\ im.tracklen_ticks > 0
        /\ file = OpsFile(SIG_HFEV3, IndexOps)) =>
            \A k \in 0..(MAX_CUSTOM_PULSES - 1) :
                im.index_pulses[k] = (k + 1) * 8 * im.ticks_per_cell

C30_Witness ==
    /\ h.op = "flux" /\ im.tracklen_ticks > 0
    /\ file = OpsFile(SIG_HFEV3, AllOps)
    /\ im.index_pulses_len = 1

(***************************************************************************)
(* SpecEnd: the host writes near the end of an HFEv3 track whose last two  *)
(* bytes are an opcode and its operand.                                    *)
(***************************************************************************)

\* <<position, byte>>: a skip opcode and its operand in the middle of the
\* second block, and in the last two bytes of the 300-byte track a skip
\* opcode (EndSkip) or a bitrate opcode (EndBitrate) with its operand.
EndSkip    == << <<280, 207>>, <<281, 8>>, <<298, 207>>, <<299, 160>> >>
EndBitrate == << <<280, 207>>, <<281, 8>>, <<298, 79>>, <<299, 72>> >>

EndFiles == { OpsFile(SIG_HFEV3, EndSkip), OpsFile(SIG_HFEV3, EndBitrate) }

\* <<track, start byte>> pairs of a write: in front of the opcodes, at the
\* last opcode, at its operand, and at the operand of the skip at 280.
EndStarts == {<<0, 270>>, <<1, 270>>, <<1, 281>>, <<1, 298>>, <<1, 299>>}

EndInit ==
    /\ file \in EndFiles
    /\ hfe_open(file).ok
    /\ im = hfe_open(file).im
    /\ rd = NoBuf /\ bc = NoBuf
    /\ wr = [prod |-> 0, cons |-> 0, buf |-> Rep(0, 2 * WR_WORDS),
             wdata |-> <<>>]
    /\ wq = NoQueue /\ heap = NoHeap
    /\ h = [op |-> "open", ret |-> FALSE, ev |-> <<>>, nlog |-> Len(file.log)]

EndNext ==
    \/ \E ts \in EndStarts : WriteStart(ts[1], ts[2])
    \/ \E fr \in HfeFrames : Pump(fr)
    \/ \E cut \in WriteCuts : PumpEnd(cut)
    \/ WriteTrack

SpecEnd == EndInit /\ [][EndNext]_vars

\* The track under the write is the one that holds ops.
on_track(ops) == SubSeq(file.log, 1, 6) = OpsFile(SIG_HFEV3, ops).log

\* C31: in hfe_write_track, trk_pos never exceeds trk_len by more than 2
\* when the wrap check runs (ASSERT(trk_pos - trk_len <= 2) never fires),
\* for every write start and every track content, also when the batch-entry
\* adjustment has advanced trk_pos near the end of the track.
C31_WrapAssert ==
    h.op = "write" => h.ok

\* The same for writes that do not start on the operand of an opcode in the
\* last bytes of the track: the cursor then passes the end of the track by
\* at most the two bytes of a skip opcode's operand and victim.
C31_WrapAssertInLoop ==
    (h.op = "write" /\ im.hfe.write.start < im.hfe.trk_len - 1) => h.ok

\* A write has wrapped past the skip opcode at the end of the track.
C31_Witness ==
    /\ h.op = "write" /\ h.ok /\ im.hfe.write.wrapped
    /\ on_track(EndSkip)
    /\ im.hfe.write.start = 298

\* The file as it was mounted, before the host wrote.
mounted == [file EXCEPT !.log = SubSeq(@, 1, 6)]

\* The write cursor has been round the whole track: more bytes were
\* consumed than lie between write.start and the end of the track and
\* between the index and trk_pos.
lapped ==
    /\ im.hfe.write.wrapped
    /\ wr.cons \div 8 > im.hfe.trk_len - im.hfe.write.start + im.hfe.trk_pos

\* Track position pos has been passed over by the write cursor.
passed_over(pos) ==
    /\ pos < im.hfe.trk_len
    /\ \/ lapped
       \/ IF im.hfe.write.wrapped
          THEN pos >= im.hfe.write.start \/ pos < im.hfe.trk_pos
          ELSE pos >= im.hfe.write.start /\ pos < im.hfe.trk_pos

\* The bytes of the blocks of the track (both heads) that are not what they
\* were at mount: <<head, position>>.
changed_bytes ==
    { hp \in (0..1) \X (0..(2 * 256 - 1)) :
        LET at == im.hfe.trk_off * 512 + (hp[2] \div 256) * 512
                  + hp[1] * 256 + (hp[2] % 256)
        IN  byte_at(file, at) # byte_at(mounted, at) }

\* C35: hfe_write_track changes only bytes of the current head's half-blocks
\* inside the span of track positions the write cursor passed over: every
\* byte of the other head, and every byte of the current head outside the
\* span, is what it was before the write.
C35_FrameEffect ==
    h.op = "write" =>
        \A hp \in changed_bytes :
            hp[1] = im.cur_track % 2 /\ passed_over(hp[2])

\* The same for writes that do not start on the operand of an opcode in
\* the last bytes of the track.
C35_FrameEffectInLoop ==
    im.hfe.write.start < im.hfe.trk_len - 1 => C35_FrameEffect

\* A write on head 1 that passed the end of the track has been written
\* back and changed bytes before and behind the index.
C35_Witness ==
    /\ h.op = "write" /\ im.hfe.write.wrapped /\ im.cur_track % 2 = 1
    /\ im.hfe.write.start = 270
    /\ <<1, 275>> \in changed_bytes /\ <<1, 3>> \in changed_bytes

\* C36: whenever hfe_write_track returns TRUE the batch window is clean
\* (write_batch.dirty is FALSE and the file holds every byte of the batch)
\* and every captured byte up to the rounded end index has been consumed
\* from write_bc; whenever it leaves a dirty window behind it returns FALSE.
C36_CleanOnTrue ==
    h.op = "write" =>
        /\ h.ret =>
             /\ ~im.hfe.write_batch.dirty
             /\ wr.cons \div 8 = h.p
             /\ F_read(file, im.hfe.trk_off * 512 + im.hfe.write_batch.off,
                       Len(wr.wdata)) = wr.wdata
        /\ im.hfe.write_batch.dirty => ~h.ret

\* The same for writes that do not start on the operand of an opcode in
\* the last bytes of the track.
C36_CleanOnTrueInLoop ==
    im.hfe.write.start < im.hfe.trk_len - 1 => C36_CleanOnTrue

\* A flushing call consumed captured bytes, wrote the batch back and
\* returned TRUE; a call before it had left the window dirty.
C36_Witness ==
    /\ h.op = "write" /\ h.ret /\ h.p = 43 /\ wr.cons = 8 * 43
    /\ Len(file.log) = 7 /\ h.nlog = 6
    /\ ~im.hfe.write_batch.dirty

\* C39: the IMG write decoders never consume words beyond the end index p
\* of the current call (write_bc.prod / 16, or the word-rounded bc_end on a
\* flushing call): after every mfm_write_track or fm_write_track call the
\* published write_bc.cons is at most 16 * p, whether the scan ends on an
\* IDAM, a DAM or no mark.
C39_ConsWithinEnd ==
    (h.op = "write" /\ im.handler # "hfe") => wr.cons <= 16 * h.p

\* A call whose scan ended on a DAM that takes the last word before p.
C39_Witness ==
    /\ h.op = "write" /\ im.handler # "hfe"
    /\ Len(h.ev) > 0 /\ h.ev[Len(h.ev)].mark = 251
    /\ wr.cons = 16 * h.p /\ h.p > 0

(***************************************************************************)
(* SpecDrain: an IMG track is read into rings of several lengths while the *)
(* flux pump keeps consuming; the main loop calls read_track again and     *)
(* again.                                                                  *)
(***************************************************************************)

\* Three 512-byte sectors, two 2048-byte sectors, and an FM track.
DrainGeoms ==
    { img_open_found(ZeroImage, Type(3, 1, 1, 30, 2, 2, 1, 0, 0, 40, 300), 40).im,
      pc_dos_open(2048, 2, 1, 40).im,
      dfs_open(1).im }

\* Words the read_bc ring holds.
DrainRings == {128, 1024, 2048}

\* Start bytes: at the index and in the DATA of the first sector.
DrainStarts(m) == {0, m.idx_sz + m.idam_sz + m.dam_sz_pre + 20}

DrainInit ==
    /\ rd = NoBuf
    /\ wr = NoBuf /\ wq = NoQueue /\ heap = NoHeap
    /\ im \in DrainGeoms
    /\ file = [fill |-> 300, log |-> <<>>]
    /\ \E n \in DrainRings : bc = [prod |-> 0, cons |-> 0, buf |-> Rep(0, n)]
    /\ h = [op |-> "open", hang |-> FALSE, ret |-> FALSE, words |-> <<>>,
            pub |-> NoPub, ppub |-> NoPub, plast |-> -1, last |-> -1, cyc |-> -1,
            total |-> -1, revs |-> 0,
            before |-> [prod |-> 0, decode_pos |-> 0, decode_data_pos |-> 0,
                        crc |-> 0]]

DrainNext ==
    \/ \E start \in DrainStarts(im) : ReadSetup(0, start)
    \/ ReadTrack
    \/ \E left \in ConsumeLeft : Consume(left)

\* The main loop calls read_track again and again, and the flux pump
\* consumes what is in the ring.
SpecDrain ==
    DrainInit /\ [][DrainNext]_vars /\ WF_vars(ReadTrack) /\ WF_vars(Consume(0))

\* The ring holds the largest phase and the largest chunk.
ring_fits ==
    Len(bc.buf) >= Max(Max(Max(im.idx_sz, im.idam_sz),
                           Max(im.dam_sz_pre, im.dam_sz_post)), 1024)

\* The flux pump has consumed every bitcell of the ring, and read_track
\* is called.
drained ==
    /\ h.op \in {"setup", "read", "consume"} /\ h.revs < MaxRevs
    /\ bc.cons = bc.prod

\* C38: if the read_bc ring holds at least max(idx_sz, idam_sz, dam_sz_pre,
\* dam_sz_post, 1024) words and the consumer keeps draining it, repeated
\* read_track calls go on emitting the phases of the track: no call
\* sequence gets stuck returning FALSE, for a call that finds the ring
\* drained emits its phase; a phase larger than the ring is never emitted.
C38_ReadProgress ==
    /\ (h.op = "read" /\ h.ret) => Len(h.words) <= Len(bc.buf)
    /\ (ring_fits /\ drained) => img_read_track(im, rd, bc, file).ret

\* ENABLED <<ReadTrack>>_vars and ENABLED <<Consume(0)>>_vars as state
\* predicates.
ReadEnabled ==
    /\ h.op \in {"setup", "read", "consume"} /\ h.revs < MaxRevs
    /\ \E r \in {img_read_track(im, rd, bc, file)} :
         r.im # im \/ r.rd # rd \/ r.bc # bc
         \/ read_hist(h, "read", im, bc.prod, r) # h

ConsumeEnabled ==
    h.op \in {"setup", "read", "consume"} /\ bc.cons < bc.prod

\* SpecDrain with its fairness conditions written out.
SpecDrainUnfolded ==
    /\ DrainInit /\ [][DrainNext]_vars
    /\ []<>(~ReadEnabled) \/ []<><<ReadTrack>>_vars
    /\ []<>(~ConsumeEnabled) \/ []<><<Consume(0)>>_vars

\* The progress itself, as a temporal formula under SpecDrainUnfolded: when
\* the ring is long enough, a track that is set up is emitted revolution
\* after revolution, until MaxRevs revolutions are complete.
ReadLeadsToRevs ==
    (h.op = "setup" /\ ring_fits) ~> (h.revs = MaxRevs)

\* The second revolution is complete in a ring of 1024 words, the length
\* of a chunk of a 2048-byte sector.
C38_Witness ==
    /\ h.op = "read" /\ h.ret /\ h.revs = MaxRevs
    /\ Len(bc.buf) = 1024 /\ sec_sz(im) = 2048

(***************************************************************************)
(* SpecNibble: the host writes bitcell bytes of any value to an HFEv3      *)
(* track that holds opcodes.                                               *)
(***************************************************************************)

\* A rand opcode at 272, a skip opcode and its operand at 280, an index
\* opcode at 290.
NibbleOps == << <<272, 47>>, <<280, 207>>, <<281, 8>>, <<290, 143>> >>

NibbleFiles == { OpsFile(SIG_HFEV3, NibbleOps), OpsFile(SIG_HFEV3, EndSkip) }

NibbleStarts == {<<0, 270>>, <<1, 270>>, <<1, 288>>}

\* Three bytes of the pattern, of 0x0F, of 0xF0 or of 0xFF.
NibbleFrames == { [mark |-> b, len |-> 3] : b \in {0, 15, 240, 255} }

NibbleInit ==
    /\ file \in NibbleFiles
    /\ hfe_open(file).ok
    /\ im = hfe_open(file).im
    /\ rd = NoBuf /\ bc = NoBuf
    /\ wr = [prod |-> 0, cons |-> 0, buf |-> Rep(0, 2 * WR_WORDS),
             wdata |-> <<>>]
    /\ wq = NoQueue /\ heap = NoHeap
    /\ h = [op |-> "open", ret |-> FALSE, ev |-> <<>>, nlog |-> Len(file.log)]

NibbleNext ==
    \/ \E ts \in NibbleStarts : WriteStart(ts[1], ts[2])
    \/ \E fr \in NibbleFrames : Pump(fr)
    \/ \E cut \in WriteCuts : PumpEnd(cut)
    \/ WriteTrack

SpecNibble == NibbleInit /\ [][NibbleNext]_vars

\* The positions of the current side's track that hold a byte with low
\* nibble 0xF in file f.
opcode_positions(f) ==
    { i \in 0..(im.hfe.trk_len - 1) :
        byte_at(f, im.hfe.trk_off * 512 + (i \div 256) * 512
                   + (im.cur_track % 2) * 256 + (i % 256)) % 16 = 15 }

\* C40: writing to an HFEv3 track never creates a new opcode: after any
\* hfe_write_track the positions of the track that hold a byte with low
\* nibble 0xF are positions that held such a byte before the write.
C40_NoNewOpcode ==
    h.op = "write" => opcode_positions(file) \subseteq opcode_positions(mounted)

\* The same when no byte the host wrote has 0xF in its high nibble, the
\* nibble that bit reversal brings into the low half.
C40_NoNewOpcodeLowHigh ==
    (\A k \in 1..Len(wq.sent) : wq.sent[k].mark \div 16 # 15)
        => C40_NoNewOpcode

\* A write went over the rand opcode at 272 and left data in its place.
C40_Witness ==
    /\ h.op = "write" /\ h.ret /\ on_track(NibbleOps)
    /\ Len(file.log) > 6 /\ im.cur_track % 2 = 1
    /\ 272 \in opcode_positions(mounted) \ opcode_positions(file)

(***************************************************************************)
(* SpecLive: the host writes to an IMG track or to an HFE track, and the   *)
(* main loop goes on calling write_track while a write is pending.         *)
(***************************************************************************)

\* A skip opcode and its operand in the last two bytes of a 512-byte track.
FullSkip == << <<510, 207>>, <<511, 160>> >>

\* OpsFile with a track of 512 bytes a side: two whole blocks.
FullFile(sig, ops) ==
    [OpsFile(sig, ops) EXCEPT !.log[2] = [off |-> 512, data |-> <<2, 0, 0, 4>>]]

LiveFiles == { OpsFile(SIG_HFEV3, EndSkip), OpsFile(SIG_PICFE, EndSkip),
               FullFile(SIG_HFEV3, FullSkip) }

\* Write starts on an HFE track: in the second block, and in the last two
\* bytes of a track of 300 or of 512 bytes.
LiveStarts == {<<1, 270>>, <<1, 298>>, <<1, 299>>, <<1, 510>>, <<1, 511>>}

LiveFrames == { [mark |-> 0, len |-> n] : n \in {3, 300} }

\* On an IMG track the host writes the IDAM of the first sector, a DAM, or
\* a DAM with a bad CRC.
LiveImgFrames(m) ==
    { Frame(254, 2, m.sec_map[0], 0, TRUE), Frame(251, 2, 0, 1, TRUE),
      Frame(251, 2, 0, 4, FALSE) }

LiveInit ==
    /\ rd = NoBuf /\ bc = NoBuf
    /\ wq = NoQueue /\ heap = NoHeap
    /\ \/ /\ im \in {jvc_open(3, 1, 0, 254, 35).im, dfs_open(1).im}
          /\ file = [fill |-> 300, log |-> <<>>]
          /\ wr = [prod |-> 0, cons |-> 0, buf |-> Rep(0, WR_WORDS)]
       \/ /\ file \in LiveFiles
          /\ hfe_open(file).ok
          /\ im = hfe_open(file).im
          /\ wr = [prod |-> 0, cons |-> 0, buf |-> Rep(0, 2 * WR_WORDS),
                   wdata |-> <<>>]
    /\ h = [op |-> "open", ret |-> FALSE, ev |-> <<>>, nlog |-> Len(file.log)]

LiveNext ==
    \/ \E ts \in (IF im.handler = "hfe" THEN LiveStarts ELSE {<<0, 0>>}) :
          WriteStart(ts[1], ts[2])
    \/ \E fr \in (IF ~wq.writing THEN {}
                  ELSE IF im.handler = "hfe" THEN LiveFrames
                  ELSE LiveImgFrames(im)) : Pump(fr)
    \/ \E cut \in WriteCuts : PumpEnd(cut)
    \/ WriteTrack

\* The main loop calls write_track again and again while a write is
\* pending.
SpecLive == LiveInit /\ [][LiveNext]_vars /\ WF_vars(WriteTrack)

\* What the next call of write_track would return and leave behind.
write_results ==
    IF im.handler = "hfe" THEN hfe_write_track(im, wr, wq, file)
    ELSE img_write_track(im, wr, wq, file)

\* A write is pending and a call of write_track returns FALSE and leaves
\* the image, the ring and the file as they are: every later call does the
\* same, and the write never completes.
livelock ==
    /\ wq.wr_cons # wq.wr_bc
    /\ \E r \in write_results :
         ~r.ret /\ r.im = im /\ r.wr = wr /\ r.file = file

\* C37: once the pump has published the end of a write (wr_bc advanced past
\* wr_cons), repeated calls of write_track eventually return TRUE, in IMG
\* mode and in HFE mode (v1 and v3): no state is reached in which a pending
\* write is stuck, its calls returning FALSE and changing nothing; a call
\* that observes wr_cons == wr_bc never returns TRUE (wr_cons never passes
\* wr_bc).
C37_WriteCompletes ==
    /\ wq.wr_cons <= wq.wr_bc
    /\ ~livelock

\* The same for writes that do not start on the operand of an opcode in
\* the last bytes of an HFE track.
C37_WriteCompletesInLoop ==
    /\ wq.wr_cons <= wq.wr_bc
    /\ (im.handler = "hfe" => im.hfe.write.start < im.hfe.trk_len - 1)
         => ~livelock

\* ENABLED <<WriteTrack>>_vars as a state predicate: a call is due and it
\* returns TRUE or changes something.
WriteEnabled ==
    /\ wq.writing \/ wq.wr_cons # wq.wr_bc
    /\ \E r \in write_results :
         r.ret \/ r.im # im \/ r.wr # wr \/ r.file # file \/ write_h(r) # h

\* SpecLive with its fairness condition written out.
SpecLiveUnfolded ==
    /\ LiveInit /\ [][LiveNext]_vars
    /\ []<>(~WriteEnabled) \/ []<><<WriteTrack>>_vars

\* The progress itself, as a temporal formula under SpecLiveUnfolded: a
\* pending write leads to a call that returns TRUE.
WriteLeadsToTrue ==
    (wq.wr_cons # wq.wr_bc) ~> (h.op = "write" /\ h.ret)

WriteLeadsToTrueInLoop ==
    (wq.wr_cons # wq.wr_bc
     /\ (im.handler = "hfe" => im.hfe.write.start < im.hfe.trk_len - 1))
        ~> (h.op = "write" /\ h.ret)

\* An HFE write of 600 bytes completed on a call that followed calls
\* returning FALSE for a write-back.
C37_Witness ==
    /\ im.handler = "hfe" /\ h.op = "write" /\ h.ret
    /\ wq.wr_cons = 1 /\ wr.cons = 4800
    /\ Len(file.log) >= 8

(***************************************************************************)
(* SpecFetch: img_fetch_data on its own.  The track is seeked, trk_sec and *)
(* rd_sec_pos are where calc_start_pos can leave them, and the DATA phase  *)
(* of read_track consumes each chunk that was fetched.                     *)
(***************************************************************************)
MaxFetches == 5

\* 512-byte sectors, one 2048-byte sector, and a track of 33 sectors of
\* 2048 bytes (67584 bytes).
FetchGeoms ==
    { img_open_found(ZeroImage, Type(3, 1, 1, 30, 1, 0, 1, 0, 0, 40, 300), 40).im,
      pc_dos_open(2048, 1, 1, 40).im,
      pc_dos_open(2048, 33, 1, 66).im }

FetchTracks == {0, 3}

FetchInit ==
    /\ bc = NoBuf /\ wr = NoBuf /\ wq = NoQueue /\ heap = NoHeap
    /\ rd = [prod |-> 0, cons |-> 0, buf |-> <<>>]
    /\ file = [fill |-> 300, log |-> <<>>]
    /\ \E g \in FetchGeoms, t \in FetchTracks :
          \E m \in {img_setup_track(g, rd, bc, file, t, -1).im} :
             \E sec \in 0..(m.nr_sectors - 1),
                pos \in 0..((sec_sz(m) - 1) \div 1024) :
                im = [m EXCEPT !.trk_sec = sec, !.rd_sec_pos = pos]
    /\ h = [op |-> "seek", seek |-> -1, len |-> -1, sec |-> 0, pos |-> 0]

\* img_fetch_data, as called at the top of read_track.
FetchData ==
    /\ rd.prod < MaxFetches
    /\ \E r \in {img_fetch_data(im, rd, file)} :
          /\ im' = r.im /\ rd' = r.rd
          /\ h' = [op |-> "fetch", seek |-> r.seek, len |-> r.len,
                   sec |-> im.sec_map[im.trk_sec], pos |-> im.rd_sec_pos]
    /\ UNCHANGED <<bc, wr, wq, file, heap>>

\* The DATA phase of read_track has encoded the chunk: rd->cons++.
FetchConsumed ==
    /\ rd.prod # rd.cons
    /\ rd' = [rd EXCEPT !.cons = @ + 1]
    /\ h' = [h EXCEPT !.op = "consumed"]
    /\ UNCHANGED <<im, bc, wr, wq, file, heap>>

FetchNext == FetchData \/ FetchConsumed

SpecFetch == FetchInit /\ [][FetchNext]_vars

\* C32: img_fetch_data reads each chunk from file offset
\* trk_off + (sec_map[trk_sec] - sec_base) * sec_sz + rd_sec_pos * 1024 with
\* length min(1024, sec_sz - rd_sec_pos * 1024), for every geometry open
\* accepts, also where nr_sectors * sec_sz is 65536 or more: the bytes the
\* write path addresses for the sector.
C32_FetchOffset ==
    (h.op = "fetch" /\ h.len >= 0) =>
        /\ h.seek = im.trk_off + (h.sec - sec_base(im)) * sec_sz(im)
                    + h.pos * 1024
        /\ h.len = Min(1024, sec_sz(im) - h.pos * 1024)
        /\ Len(rd.buf) = h.len

\* The same on tracks shorter than 65536 bytes.
C32_FetchOffsetShortTrack ==
    im.nr_sectors * sec_sz(im) < 65536 => C32_FetchOffset

\* The second chunk of a 2048-byte sector was fetched.
C32_Witness ==
    /\ h.op = "fetch" /\ h.len = 1024 /\ h.pos = 1
    /\ im.nr_sectors * sec_sz(im) < 65536
    /\ im.trk_off > 0

(***************************************************************************)
(* The arena allocator (arena.c) and SpecArena: arena_init, then any       *)
(* sequence of arena_alloc calls; a failed ASSERT stops the firmware.      *)
(***************************************************************************)
MaxAllocs == 4

\* _ebss, the end of .bss (4-byte aligned), and the RAM size: an arena of
\* 64 bytes.
heap_bot == 536870912 + 960
ram_kb   == 1

\* Sizes asked for.  A uint32_t of 2^31 and above is written v - 2^32 (see
\* u32_div): -1 is 0xFFFFFFFF, -8 is 0xFFFFFFF8.
AllocSizes == {0, 1, 4, 5, 16, 61, 64, -1, -8}

\* (sz + 3) & ~3 in uint32_t.
round_up_4(sz) == ((sz + 3) \div 4) * 4

\* arena_init: heap_p = heap_bot, heap_top = 0x20000000 + ram_kb * 1024.
arena_init ==
    [p |-> heap_bot, top |-> 536870912 + ram_kb * 1024, ok |-> TRUE,
     out |-> <<>>]

\* arena_alloc(sz): [heap, p], p the pointer returned; heap.ok is whether
\* ASSERT(heap_p <= heap_top) held, heap.out the calls made: the pointer
\* returned and the size asked for.
arena_alloc(hp, sz) ==
    [heap |-> [hp EXCEPT !.p = @ + round_up_4(sz),
                         !.ok = hp.p + round_up_4(sz) <= hp.top,
                         !.out = Append(@, [p |-> hp.p, sz |-> sz])],
     p |-> hp.p]

arena_total(hp) == hp.top - heap_bot
arena_avail(hp) == hp.top - hp.p

ArenaInit ==
    /\ im = ZeroImage
    /\ rd = NoBuf /\ bc = NoBuf /\ wr = NoBuf /\ wq = NoQueue /\ file = NoFile
    /\ heap = NoHeap
    /\ h = [op |-> "boot", p |-> 0, before |-> 0]

ArenaInitCall ==
    /\ heap.ok
    /\ heap' = arena_init
    /\ h' = [op |-> "init", p |-> 0, before |-> 0]
    /\ UNCHANGED <<im, rd, bc, wr, wq, file>>

ArenaAlloc(sz) ==
    /\ h.op # "boot" /\ heap.ok
    /\ Len(heap.out) < MaxAllocs
    /\ \E r \in {arena_alloc(heap, sz)} :
          /\ heap' = r.heap
          /\ h' = [op |-> "alloc", p |-> r.p, before |-> heap.p]
    /\ UNCHANGED <<im, rd, bc, wr, wq, file>>

ArenaNext ==
    \/ ArenaInitCall
    \/ \E sz \in AllocSizes : ArenaAlloc(sz)

SpecArena == ArenaInit /\ [][ArenaNext]_vars

\* A size below 2^31: sizes of 2^31 and above (written v - 2^32) are more
\* than any arena holds.
fits(sz) == sz >= 0

RECURSIVE handed_out(_, _)
handed_out(out, k) ==
    IF k = 0 THEN 0 ELSE handed_out(out, k - 1) + round_up_4(out[k].sz)

\* The end of region k: the next pointer returned, or heap_p.
region_end(k) ==
    IF k < Len(heap.out) THEN heap.out[k + 1].p ELSE heap.p

\* C33: after arena_init, each arena_alloc(sz) returns the bump pointer and
\* advances it by sz rounded up to a multiple of 4; after every call that
\* passes the assertion heap_bot <= heap_p <= heap_top, the regions
\* returned so far are pairwise disjoint and each at least sz bytes long,
\* and arena_avail() plus the bytes handed out is arena_total().
C33_ArenaInvariant ==
    (h.op = "alloc" /\ heap.ok) =>
        /\ h.p = h.before
        /\ fits(heap.out[Len(heap.out)].sz)
        /\ heap.p = h.before + round_up_4(heap.out[Len(heap.out)].sz)
        /\ heap_bot <= heap.p /\ heap.p <= heap.top
        /\ \A k \in 1..Len(heap.out) :
              /\ fits(heap.out[k].sz)
              /\ region_end(k) - heap.out[k].p >= heap.out[k].sz
        /\ \A j, k \in 1..Len(heap.out) :
              j < k => /\ fits(heap.out[j].sz)
                       /\ heap.out[j].p + heap.out[j].sz <= heap.out[k].p
        /\ arena_avail(heap) + handed_out(heap.out, Len(heap.out))
               = arena_total(heap)

\* The same while no size asked for is above 0xFFFFFFFC - that is, while
\* sz + 3 does not wrap around.
C33_ArenaInvariantNoWrap ==
    (\A k \in 1..Len(heap.out) : fits(heap.out[k].sz)) => C33_ArenaInvariant

\* Regions of 5, 1 and 16 bytes are handed out, 28 bytes of the 64 in all.
C33_Witness ==
    /\ h.op = "alloc" /\ heap.ok /\ Len(heap.out) = 3
    /\ arena_avail(heap) = arena_total(heap) - 28
    /\ heap.out[1].sz = 5 /\ heap.out[2].sz = 1 /\ heap.out[3].sz = 16

(***************************************************************************)
(* SpecStep: a track of an IMG image is set up for reading at a start      *)
(* position in each kind of phase and read for two revolutions.            *)
(***************************************************************************)

\* Three 512-byte sectors interleaved 2:1, two 2048-byte sectors, and 33
\* sectors of 2048 bytes.
StepGeoms ==
    { img_open_found(ZeroImage, Type(3, 1, 1, 30, 2, 2, 1, 0, 0, 40, 300), 40).im,
      pc_dos_open(2048, 2, 1, 40).im,
      pc_dos_open(2048, 33, 1, 66).im }

\* Start bytes in the index gap, and for the first and the last slot at the
\* IDAM, at the DAM, inside the last chunk of DATA, at the post-DATA phase,
\* and in GAP4.
StepStarts(m) ==
    {0, m.idx_sz + m.nr_sectors * enc_sec_sz(m) + 2}
    \cup UNION { { b, b + m.idam_sz,
                   b + m.idam_sz + m.dam_sz_pre + sec_sz(m) - 20,
                   b + m.idam_sz + m.dam_sz_pre + sec_sz(m) } :
                 b \in { m.idx_sz + slot * enc_sec_sz(m) :
                         slot \in {0, m.nr_sectors - 1} } }

\* The image file: a varied pattern of bytes (it repeats every 65536
\* bytes), and four bytes written at offset 65536.
StepFile == [fill |-> 300,
             log |-> << [off |-> 65536, data |-> <<90, 91, 92, 93>>] >>]

StepInit ==
    /\ rd = NoBuf
    /\ wr = NoBuf /\ wq = NoQueue /\ heap = NoHeap
    /\ im \in StepGeoms
    /\ file = StepFile
    /\ bc = [prod |-> 0, cons |-> 0, buf |-> Rep(0, BC_LEN \div 2)]
    /\ h = [op |-> "open", hang |-> FALSE, ret |-> FALSE, words |-> <<>>,
            pub |-> NoPub, ppub |-> NoPub, plast |-> -1, last |-> -1, cyc |-> -1,
            total |-> -1, revs |-> 0,
            before |-> [prod |-> 0, decode_pos |-> 0, decode_data_pos |-> 0,
                        crc |-> 0]]

StepNext ==
    \/ \E start \in StepStarts(im) : ReadSetup(1, start)
    \/ ReadTrack
    \/ Consume(0)

SpecStep == StepInit /\ [][StepNext]_vars

\* C34: the payload emitted in the DATA phase of rotational slot k is chunk
\* decode_data_pos of the sector whose ID sec_map[k] the IDAM of the slot
\* carries - trk_sec and rd_sec_pos stay in step with decode_pos and
\* decode_data_pos - over any number of revolutions and for every start
\* position calc_start_pos can choose.
C34_DataInStep ==
    (h.op \in {"setup", "read"} /\ h.ret) =>
        /\ h.pub.kind = "IDAM" => h.pub.id = im.sec_map[h.pub.slot]
        /\ h.pub.kind = "DATA" =>
             [i \in 1..h.pub.len |-> mfmtobin(h.words[i])]
               = F_read(file, im.trk_off
                              + (im.sec_map[h.pub.slot] - sec_base(im))
                                * sec_sz(im)
                              + h.pub.chunk * 1024, h.pub.len)

\* The same on tracks shorter than 65536 bytes.
C34_DataInStepShortTrack ==
    im.nr_sectors * sec_sz(im) < 65536 => C34_DataInStep

\* The second chunk of the first slot is emitted in the second revolution
\* of a read that started in the post-DATA phase of the last slot.
C34_Witness ==
    /\ h.op = "read" /\ h.ret /\ h.pub.kind = "DATA" /\ h.revs = 1
    /\ h.pub.slot = 0 /\ h.pub.chunk = 1
    /\ im.nr_sectors = 2

=============================================================================
